---- MODULE Spec2Model ----
(***************************************************************************)
(* Session orchestration core of ateliercode (src-tauri):                  *)
(*   - AgentManager      (agent_manager.rs): the session registry and its  *)
(*                        kill-then-respawn child process slot             *)
(*   - GenericCliPlugin  (plugins/generic_cli.rs): the config-driven       *)
(*                        adapter, its template choice and history paging  *)
(*   - PluginConfig      (plugins/config.rs): validation and substitution  *)
(* Every await of the Rust code is a step boundary; code between two       *)
(* awaits is one atomic action.                                            *)
(***************************************************************************)
EXTENDS Integers, Sequences, FiniteSets, TLC

\* ---------------------------------------------------------------- bounds
MaxSessions == 1      \* session ids ever allocated (uuid pool)
MaxCalls    == 2      \* send_message / stop_session calls ever issued
MaxChildren == 2      \* child processes ever spawned
MaxLines    == 1      \* lines a child writes, both streams together
MaxStreamLines == 3   \* the same where one send is followed on its own

None == "None"    \* Option::None of a string
NoChild == 0      \* Option::None of a child, a holder or a pid

SessionIds == 1..MaxSessions
\* An id no session ever has (session ids are fresh uuids).
UnknownId  == MaxSessions + 1
Calls      == 1..MaxCalls
Streams    == {"stdout", "stderr"}

\* What a line of CLI output looks like to the code that consumes it:
\* "sid" matches the session-id pattern, "text" matches nothing,
\* "blank" is empty after trimming.
LineKinds == {"text", "sid", "blank"}
\* The kinds the modelled CLI children write.
ChildLineKinds == {"text", "sid"}

\* ------------------------------------------------------------- variables
VARIABLES
    component,    \* which implementation runs: "mgr" (AgentManager) or "cli" (GenericCliPlugin)
    config,       \* GenericCliPlugin.config: the PluginConfig it is built from
    plugin,       \* outcome of GenericCliPlugin::new: "unbuilt", "ok" or "err"
    sessions,     \* AgentManager.sessions: HashMap<String, RunningSession>
    nextSession,  \* next fresh uuid
    initPending,  \* sessions whose start_session is inside initialize_claude_session
    children,     \* every child process spawned so far, with its holder, pipes and tasks
    calls,        \* in-flight and finished send_message / stop_session calls
    hist,         \* per session: what the readers appended and what reads returned
    eval,         \* a pure function under evaluation: its name, arguments and result
    plugins       \* PluginManager.plugins: HashMap<String, Box<dyn AgentPlugin>>

vars == <<component, config, plugin, sessions, nextSession, initPending, children,
          calls, hist, eval, plugins>>

\* ------------------------------------------------------------ helpers
\* Ids a caller may pass: those start_session has returned so far, and
\* one that no session ever has.
TargetIds == {s \in SessionIds : s < nextSession} \cup {UnknownId}

Registered == DOMAIN sessions

ChildIds == 1..Len(children)

Live(k) == children[k].alive

LiveChildrenOf(s) == {k \in ChildIds : children[k].sid = s /\ Live(k)}

\* The map's RwLock is held shared by every call that is inside
\* kill_active_process past its sessions.read().await.
ReadGuards == {c \in Calls : calls[c].pc \in {"kill_holder", "kill_io"}}

\* sessions.write().await can be granted only when no shared guard is out.
WriteLockFree == ReadGuards = {}

IdleCall == [op |-> "none", sid |-> 0, pc |-> "idle", h |-> NoChild, k |-> NoChild, res |-> "none"]

EmptyHist == [raw |-> <<>>, rawRet |-> <<>>, ev |-> <<>>, evRet |-> <<>>]

\* OutputParser::parse_line, seen from the buffers: nothing for a blank
\* line, otherwise a RawOutput event first (the detectors' further events
\* are left out here).
ParseLine(line) ==
    IF line.kind = "blank" THEN <<>>
    ELSE << [type |-> "RawOutput", line |-> line] >>

\* extract_claude_session_id finding no id in any line.
extract_claude_session_id_Never(line) == None

\* AgentManager::extract_claude_session_id
extract_claude_session_id(line) ==
    IF line.kind = "sid" THEN line.id ELSE None

\* Raw-buffer entry: stdout lines as they are, stderr lines prefixed.
RawItem(stream, line) ==
    [prefix |-> IF stream = "stderr" THEN "[stderr] " ELSE "", line |-> line]

NewChild(s, template, args) ==
    [sid |-> s, alive |-> TRUE,
     holder |-> NoChild,     \* contents of the Arc<RwLock<Option<Child>>> made for it
     hlock |-> "free",       \* who holds that RwLock: "free", "waiter" or "kill"
     waiter |-> "none",      \* exit-waiter task: none, spawned, waiting, done
     readers |-> FALSE,      \* stdout/stderr reader tasks spawned
     piped |-> TRUE,         \* the parent still holds the read ends of the pipes
     pipe |-> [st \in Streams |-> <<>>],
     written |-> [st \in Streams |-> 0],
     template |-> template,  \* adapter: name of the command template it was spawned from
     args |-> args]          \* adapter: its argument vector

\* get_headless_command's table of backends: which agent types it accepts.
SupportedAgent(agent_type) ==
    agent_type \in {"claude", "claude-code", "aider", "gemini", "gemini-cli"}

AgentTypes == {"claude", "cursor"}

\* Option<Vec<String>> of a command template.
SomeT(template) == [some |-> TRUE, v |-> template]
NoneT == [some |-> FALSE, v |-> <<>>]

\* The registry has no PluginConfig.
NoConfig == [cli_command |-> "", start_session |-> <<>>, send_message |-> <<>>,
             resume_session |-> NoneT, session_resume |-> FALSE,
             session_id_pattern |-> FALSE]

\* No pure function is under evaluation.
NoEval == [fn |-> "none"]

\* A Result: Ok(value) or Err(message).
Ok(value) == [ok |-> TRUE, value |-> value]
Err(msg) == [ok |-> FALSE, value |-> msg]

\* What the last start_session or resume_session call was given as its
\* path (whether it exists) and what it returned.
Returned(fn, path_exists, res) ==
    [fn |-> fn, path_exists |-> path_exists, ok |-> res.ok,
     id |-> IF res.ok THEN res.value ELSE UnknownId,
     error |-> IF res.ok THEN None ELSE res.value]

\* ------------------------------------------------------------------ Init
InitCommon ==
    /\ nextSession = 1
    /\ initPending = {}
    /\ children = <<>>
    /\ calls = [c \in Calls |-> IdleCall]
    /\ hist = [s \in SessionIds |-> EmptyHist]
    /\ eval = NoEval
    /\ plugins = << >>

\* AgentManager::new
InitMgr ==
    /\ component = "mgr"
    /\ config = NoConfig
    /\ plugin = "unbuilt"
    /\ sessions = << >>
    /\ InitCommon

\* ------------------------------------------------ AgentManager: sessions
\* start_session without its check of the root path.
start_session_NoPathCheck(agent_type, path_exists, resume_session_id) ==
    /\ component = "mgr"
    /\ nextSession <= MaxSessions
    /\ WriteLockFree
    /\ sessions' = sessions @@ (nextSession :>
          [agent_type |-> agent_type, status |-> "Running", pid |-> NoChild,
           claude_session_id |-> resume_session_id, active_child |-> NoChild,
           output_buffer |-> <<>>, parsed_events |-> <<>>])
    /\ nextSession' = nextSession + 1
    /\ initPending' = IF resume_session_id = None /\ agent_type = "claude"
                      THEN initPending \cup {nextSession} ELSE initPending
    /\ eval' = Returned("start_session", path_exists, Ok(nextSession))
    /\ UNCHANGED <<component, config, plugins, plugin, children, calls, hist>>

\* start_session up to its insert; the upfront vendor call of a claude
\* session is left pending and finishes in initialize_claude_session.
\* eval keeps what the call was given as its path and what it returns.
start_session(agent_type, path_exists, resume_session_id) ==
    /\ component = "mgr"
    /\ nextSession <= MaxSessions
    /\ IF ~path_exists
       THEN /\ eval' = Returned("start_session", FALSE,
                                Err("Project root path does not exist"))
            /\ UNCHANGED <<component, config, plugins, plugin, sessions, nextSession,
                           initPending, children, calls, hist>>
       ELSE /\ WriteLockFree
            /\ sessions' = sessions @@ (nextSession :>
                  [agent_type |-> agent_type, status |-> "Running", pid |-> NoChild,
                   claude_session_id |-> resume_session_id, active_child |-> NoChild,
                   output_buffer |-> <<>>, parsed_events |-> <<>>])
            /\ nextSession' = nextSession + 1
            /\ initPending' = IF resume_session_id = None /\ agent_type = "claude"
                              THEN initPending \cup {nextSession} ELSE initPending
            /\ eval' = Returned("start_session", TRUE, Ok(nextSession))
            /\ UNCHANGED <<component, config, plugins, plugin, children, calls, hist>>

\* initialize_claude_session inserting an entry when the id has none.
initialize_claude_session_Inserts(s, result) ==
    /\ component = "mgr"
    /\ s \in initPending
    /\ initPending' = initPending \ {s}
    /\ IF result # None
       THEN /\ WriteLockFree
            /\ sessions' = IF s \in Registered
                           THEN [sessions EXCEPT ![s].claude_session_id = result]
                           ELSE sessions @@ (s :>
                                  [agent_type |-> "claude", status |-> "Running",
                                   pid |-> NoChild, claude_session_id |-> result,
                                   active_child |-> NoChild,
                                   output_buffer |-> <<>>, parsed_events |-> <<>>])
       ELSE UNCHANGED sessions
    /\ UNCHANGED <<component, config, eval, plugins, plugin, nextSession, children, calls, hist>>

\* The one-shot init call returns: result is the session_id of its JSON
\* output, or None when the call failed or printed none.
initialize_claude_session(s, result) ==
    /\ component = "mgr"
    /\ s \in initPending
    /\ initPending' = initPending \ {s}
    /\ IF result # None
       THEN /\ WriteLockFree
            /\ sessions' = IF s \in Registered
                           THEN [sessions EXCEPT ![s].claude_session_id = result]
                           ELSE sessions
       ELSE UNCHANGED sessions
    /\ UNCHANGED <<component, config, eval, plugins, plugin, nextSession, children, calls, hist>>

\* ------------------------------------------ AgentManager: kill-active
\* Where a call continues once kill_active_process has returned.
AfterKill(op) == IF op = "send" THEN "spawn" ELSE "remove"

\* A caller issues send_message or stop_session; the call runs up to the
\* first suspension inside kill_active_process: it takes the map's shared
\* lock and, if the session has a child holder, queues for the holder's lock.
BeginCall(c, op, s) ==
    /\ component = "mgr"
    /\ calls[c].pc = "idle"
    /\ \A d \in Calls : d < c => calls[d].pc # "idle"
    /\ LET held == s \in Registered /\ sessions[s].active_child # NoChild
       IN calls' = [calls EXCEPT ![c] =
              [op |-> op, sid |-> s,
               pc |-> IF held THEN "kill_holder" ELSE AfterKill(op),
               h |-> IF held THEN sessions[s].active_child ELSE NoChild,
               k |-> NoChild, res |-> "none"]]
    /\ UNCHANGED <<component, config, eval, plugins, plugin, sessions, nextSession, initPending, children, hist>>

\* kill_active_process gets the holder's write lock. An empty holder is
\* cleared and released at once; a full one starts kill + wait.
KillAcquire(c) ==
    /\ component = "mgr"
    /\ calls[c].pc = "kill_holder"
    /\ LET h == calls[c].h IN
       /\ children[h].hlock = "free"
       /\ IF children[h].holder # NoChild
          THEN /\ children' = [children EXCEPT ![h].hlock = "kill"]
               /\ calls' = [calls EXCEPT ![c].pc = "kill_io"]
          ELSE /\ children' = children
               /\ calls' = [calls EXCEPT ![c].pc = AfterKill(calls[c].op)]
    /\ UNCHANGED <<component, config, eval, plugins, plugin, sessions, nextSession, initPending, hist>>

\* child.kill() and child.wait() have returned: the child is dead, the
\* holder is cleared, both locks are released.
KillFinish(c) ==
    /\ component = "mgr"
    /\ calls[c].pc = "kill_io"
    /\ LET h == calls[c].h IN
       children' = [children EXCEPT ![h].alive = FALSE, ![h].holder = NoChild,
                                    ![h].hlock = "free"]
    /\ calls' = [calls EXCEPT ![c].pc = AfterKill(calls[c].op)]
    /\ UNCHANGED <<component, config, eval, plugins, plugin, sessions, nextSession, initPending, hist>>

\* ------------------------------------------- AgentManager: send_message
\* SendSpawn dropping the session from the map when the send fails.
SendSpawn_DropsOnFailure(c, installed, spawn_ok, large) ==
    /\ component = "mgr"
    /\ calls[c].pc = "spawn"
    /\ LET s == calls[c].sid IN
       IF s \notin Registered
       THEN /\ calls' = [calls EXCEPT ![c].pc = "done", ![c].res = "notfound"]
            /\ UNCHANGED <<children, sessions>>
       ELSE IF ~SupportedAgent(sessions[s].agent_type) \/ ~installed \/ ~spawn_ok
       THEN /\ calls' = [calls EXCEPT ![c].pc = "done", ![c].res = "error"]
            /\ sessions' = [t \in Registered \ {s} |-> sessions[t]]
            /\ UNCHANGED children
       ELSE /\ Len(children) < MaxChildren
            /\ children' = Append(children, NewChild(s, None, <<>>))
            /\ calls' = [calls EXCEPT ![c].k = Len(children) + 1,
                                      ![c].pc = IF large THEN "stdin" ELSE "store"]
            /\ UNCHANGED sessions
    /\ UNCHANGED <<component, config, eval, plugins, plugin, nextSession, initPending, hist>>

\* After kill_active_process: look the session up, build the command and
\* spawn it (no suspension in between). `installed` is which::which's
\* answer, `spawn_ok` the OS's, `large` is message.len() > 16 * 1024.
SendSpawn(c, installed, spawn_ok, large) ==
    /\ component = "mgr"
    /\ calls[c].pc = "spawn"
    /\ LET s == calls[c].sid IN
       IF s \notin Registered
       THEN /\ calls' = [calls EXCEPT ![c].pc = "done", ![c].res = "notfound"]
            /\ UNCHANGED children
       ELSE IF ~SupportedAgent(sessions[s].agent_type) \/ ~installed \/ ~spawn_ok
       THEN /\ calls' = [calls EXCEPT ![c].pc = "done", ![c].res = "error"]
            /\ UNCHANGED children
       ELSE /\ Len(children) < MaxChildren
            /\ children' = Append(children, NewChild(s, None, <<>>))
            /\ calls' = [calls EXCEPT ![c].k = Len(children) + 1,
                                      ![c].pc = IF large THEN "stdin" ELSE "store"]
    /\ UNCHANGED <<component, config, eval, plugins, plugin, sessions, nextSession, initPending, hist>>

\* stdin.write_all / flush returned. On failure send_message returns the
\* error and drops the Child value, which closes the pipes' read ends but
\* does not kill the process (kill_on_drop is not set).
SendStdin(c, ok) ==
    /\ component = "mgr"
    /\ calls[c].pc = "stdin"
    /\ IF ok
       THEN /\ calls' = [calls EXCEPT ![c].pc = "store"]
            /\ UNCHANGED children
       ELSE /\ calls' = [calls EXCEPT ![c].pc = "done", ![c].res = "error"]
            /\ children' = [children EXCEPT ![calls[c].k].piped = FALSE]
    /\ UNCHANGED <<component, config, eval, plugins, plugin, sessions, nextSession, initPending, hist>>

\* "Update PID and store the child process reference" under the map's
\* write lock, then the two reader tasks are spawned.
SendStore(c) ==
    /\ component = "mgr"
    /\ calls[c].pc = "store"
    /\ WriteLockFree
    /\ LET s == calls[c].sid
           k == calls[c].k
       IN /\ sessions' = IF s \in Registered
                         THEN [sessions EXCEPT ![s].pid = k, ![s].active_child = k]
                         ELSE sessions
          /\ children' = [children EXCEPT ![k].readers = TRUE]
    /\ calls' = [calls EXCEPT ![c].pc = "hold"]
    /\ UNCHANGED <<component, config, eval, plugins, plugin, nextSession, initPending, hist>>

\* "Store the child in the holder", spawn the exit-waiter, return Ok.
SendHold(c) ==
    /\ component = "mgr"
    /\ calls[c].pc = "hold"
    /\ LET k == calls[c].k IN
       /\ children[k].hlock = "free"
       /\ children' = [children EXCEPT ![k].holder = k, ![k].waiter = "spawned"]
    /\ calls' = [calls EXCEPT ![c].pc = "done", ![c].res = "ok"]
    /\ UNCHANGED <<component, config, eval, plugins, plugin, sessions, nextSession, initPending, hist>>

\* WaiterAcquire waiting on the child while leaving it in the holder.
WaiterAcquire_LeavesChild(k) ==
    /\ component = "mgr"
    /\ children[k].waiter = "spawned"
    /\ children[k].hlock = "free"
    /\ children' = IF children[k].holder # NoChild
                   THEN [children EXCEPT ![k].hlock = "waiter", ![k].waiter = "waiting"]
                   ELSE [children EXCEPT ![k].waiter = "done"]
    /\ UNCHANGED <<component, config, eval, plugins, plugin, sessions, nextSession, initPending, calls, hist>>

\* The exit-waiter takes the holder's write lock and takes the child out
\* of it; the guard stays alive for the whole of child.wait().
WaiterAcquire(k) ==
    /\ component = "mgr"
    /\ children[k].waiter = "spawned"
    /\ children[k].hlock = "free"
    /\ children' = IF children[k].holder # NoChild
                   THEN [children EXCEPT ![k].holder = NoChild, ![k].hlock = "waiter",
                                         ![k].waiter = "waiting"]
                   ELSE [children EXCEPT ![k].waiter = "done"]
    /\ UNCHANGED <<component, config, eval, plugins, plugin, sessions, nextSession, initPending, calls, hist>>

\* child.wait() returned in the exit-waiter: the guard is dropped.
WaiterReap(k) ==
    /\ component = "mgr"
    /\ children[k].waiter = "waiting"
    /\ ~children[k].alive
    /\ children' = [children EXCEPT ![k].hlock = "free", ![k].waiter = "done"]
    /\ UNCHANGED <<component, config, eval, plugins, plugin, sessions, nextSession, initPending, calls, hist>>

\* StopRemove answering Ok for an id that is not in the map.
StopRemoveOkOnUnknown(c) ==
    /\ component = "mgr"
    /\ calls[c].pc = "remove"
    /\ WriteLockFree
    /\ sessions' = [t \in Registered \ {calls[c].sid} |-> sessions[t]]
    /\ calls' = [calls EXCEPT ![c].pc = "done", ![c].res = "ok"]
    /\ UNCHANGED <<component, config, eval, plugins, plugin, nextSession, initPending, children, hist>>

\* stop_session after kill_active_process: remove under the write lock.
StopRemove(c) ==
    /\ component = "mgr"
    /\ calls[c].pc = "remove"
    /\ WriteLockFree
    /\ LET s == calls[c].sid IN
       IF s \in Registered
       THEN /\ sessions' = [t \in Registered \ {s} |-> sessions[t]]
            /\ calls' = [calls EXCEPT ![c].pc = "done", ![c].res = "ok"]
       ELSE /\ sessions' = sessions
            /\ calls' = [calls EXCEPT ![c].pc = "done", ![c].res = "notfound"]
    /\ UNCHANGED <<component, config, eval, plugins, plugin, nextSession, initPending, children, hist>>

\* --------------------------------------------- child processes and pipes
\* The vendor id a matching line carries; it depends on where the line
\* is, so two matching lines of one child carry different ids.
VendorIdOf(stream, n) ==
    IF stream = "stdout" THEN "out-" \o ToString(n) ELSE "err-" \o ToString(n)

\* How many lines a child writes at most: more where one send is
\* followed on its own.
LineBound == IF eval.fn = "stream" THEN MaxStreamLines ELSE MaxLines

\* The child writes one more line to one of its pipes.
ChildWrite(k, stream, kind) ==
    /\ children[k].alive
    /\ children[k].piped
    /\ children[k].written["stdout"] + children[k].written["stderr"] < LineBound
    /\ LET n == children[k].written[stream] + 1
           line == [child |-> k, stream |-> stream, n |-> n, kind |-> kind,
                    id |-> IF kind = "sid" THEN VendorIdOf(stream, n) ELSE None]
       IN children' = [children EXCEPT ![k].written[stream] = n,
                                       ![k].pipe[stream] = Append(@, line)]
    /\ UNCHANGED <<component, config, eval, plugins, plugin, sessions, nextSession, initPending, calls, hist>>

\* The child ends by itself (a child that never does never takes this step).
ChildExit(k) ==
    /\ children[k].alive
    /\ children' = [children EXCEPT ![k].alive = FALSE]
    /\ UNCHANGED <<component, config, eval, plugins, plugin, sessions, nextSession, initPending, calls, hist>>

\* MgrAppend putting the line in front of the raw buffer.
MgrAppend_Prepends(rs, stream, line) ==
    [rs EXCEPT
       !.claude_session_id =
           IF stream = "stdout" /\ @ = None /\ extract_claude_session_id(line) # None
           THEN extract_claude_session_id(line) ELSE @,
       !.parsed_events = @ \o ParseLine(line),
       !.output_buffer = << RawItem(stream, line) >> \o @]

\* What one reader task of the registry does to the session with a line.
MgrAppend(rs, stream, line) ==
    [rs EXCEPT
       !.claude_session_id =
           IF stream = "stdout" /\ @ = None /\ extract_claude_session_id(line) # None
           THEN extract_claude_session_id(line) ELSE @,
       !.parsed_events = @ \o ParseLine(line),
       !.output_buffer = Append(@, RawItem(stream, line))]

HistAppend(h, stream, line) ==
    [h EXCEPT !.raw = Append(@, RawItem(stream, line)),
              !.ev = @ \o ParseLine(line)]

\* MgrReaderStep pushing the raw line only, the events being left for
\* another critical section.
MgrReaderStep_RawOnly(k, stream) ==
    /\ component = "mgr"
    /\ children[k].readers
    /\ children[k].pipe[stream] # <<>>
    /\ WriteLockFree
    /\ LET line == Head(children[k].pipe[stream])
           s == children[k].sid
       IN /\ children' = [children EXCEPT ![k].pipe[stream] = Tail(@)]
          /\ IF s \in Registered
             THEN /\ sessions' = [sessions EXCEPT
                                     ![s].output_buffer = Append(@, RawItem(stream, line))]
                  /\ hist' = [hist EXCEPT ![s] = HistAppend(@, stream, line)]
             ELSE UNCHANGED <<sessions, hist>>
    /\ UNCHANGED <<component, config, eval, plugins, plugin, nextSession, initPending, calls>>

\* One turn of a reader task's loop: next_line() gave a line, the map's
\* write lock was granted; the line is dropped if the session is gone.
MgrReaderStep(k, stream) ==
    /\ component = "mgr"
    /\ children[k].readers
    /\ children[k].pipe[stream] # <<>>
    /\ WriteLockFree
    /\ LET line == Head(children[k].pipe[stream])
           s == children[k].sid
       IN /\ children' = [children EXCEPT ![k].pipe[stream] = Tail(@)]
          /\ IF s \in Registered
             THEN /\ sessions' = [sessions EXCEPT ![s] = MgrAppend(@, stream, line)]
                  /\ hist' = [hist EXCEPT ![s] = HistAppend(@, stream, line)]
             ELSE UNCHANGED <<sessions, hist>>
    /\ UNCHANGED <<component, config, eval, plugins, plugin, nextSession, initPending, calls>>

\* ------------------------------------------- AgentManager: lookups
\* These take the map's shared lock and change nothing.
\* get_session_status: the session's metadata or "Session not found".
get_session_status(s) ==
    IF s \in Registered
    THEN Ok([agent_type |-> sessions[s].agent_type, status |-> sessions[s].status,
             pid |-> sessions[s].pid,
             claude_session_id |-> sessions[s].claude_session_id])
    ELSE Err("Session not found")

\* list_sessions: the ids of the map's values.
list_sessions_ids == Registered

\* health_check: Ok(contains_key).
health_check(s) == s \in Registered

\* ---------------------------------------------------- AgentManager: reads
\* Each read takes the map's write lock, clones the buffer(s) and clears
\* them; on an unknown id it returns "Session not found" and changes nothing.
\* hist records the returned lists, concatenated in call order.
\* read_output without its output_buffer.clear().
read_output_NoClear(s) ==
    /\ component = "mgr"
    /\ WriteLockFree
    /\ IF s \notin Registered
       THEN UNCHANGED hist
       ELSE hist' = [hist EXCEPT ![s].rawRet = @ \o sessions[s].output_buffer]
    /\ UNCHANGED <<component, config, eval, plugins, plugin, sessions, nextSession, initPending,
                   children, calls>>

read_output(s) ==
    /\ component = "mgr"
    /\ WriteLockFree
    /\ IF s \notin Registered
       THEN UNCHANGED <<sessions, hist>>
       ELSE /\ sessions' = [sessions EXCEPT ![s].output_buffer = <<>>]
            /\ hist' = [hist EXCEPT ![s].rawRet = @ \o sessions[s].output_buffer]
    /\ UNCHANGED <<component, config, eval, plugins, plugin, nextSession, initPending, children, calls>>

read_events(s) ==
    /\ component = "mgr"
    /\ WriteLockFree
    /\ IF s \notin Registered
       THEN UNCHANGED <<sessions, hist>>
       ELSE /\ sessions' = [sessions EXCEPT ![s].parsed_events = <<>>]
            /\ hist' = [hist EXCEPT ![s].evRet = @ \o sessions[s].parsed_events]
    /\ UNCHANGED <<component, config, eval, plugins, plugin, nextSession, initPending, children, calls>>

read_output_and_events(s) ==
    /\ component = "mgr"
    /\ WriteLockFree
    /\ IF s \notin Registered
       THEN UNCHANGED <<sessions, hist>>
       ELSE /\ sessions' = [sessions EXCEPT ![s].output_buffer = <<>>,
                                            ![s].parsed_events = <<>>]
            /\ hist' = [hist EXCEPT ![s].rawRet = @ \o sessions[s].output_buffer,
                                    ![s].evRet = @ \o sessions[s].parsed_events]
    /\ UNCHANGED <<component, config, eval, plugins, plugin, nextSession, initPending, children, calls>>

\* ------------------------------------------------------ AgentManager: Next
NextMgr ==
    \/ \E a \in AgentTypes, e \in BOOLEAN, r \in {None, "resumed"} : start_session(a, e, r)
    \/ \E s \in SessionIds, r \in {None, "init"} : initialize_claude_session(s, r)
    \/ \E c \in Calls, op \in {"send", "stop"}, s \in TargetIds : BeginCall(c, op, s)
    \/ \E c \in Calls : KillAcquire(c)
    \/ \E c \in Calls : KillFinish(c)
    \/ \E c \in Calls, i, o, l \in BOOLEAN : SendSpawn(c, i, o, l)
    \/ \E c \in Calls, ok \in BOOLEAN : SendStdin(c, ok)
    \/ \E c \in Calls : SendStore(c)
    \/ \E c \in Calls : SendHold(c)
    \/ \E c \in Calls : StopRemove(c)
    \/ \E k \in ChildIds : WaiterAcquire(k)
    \/ \E k \in ChildIds : WaiterReap(k)
    \/ \E k \in ChildIds, st \in Streams, kind \in ChildLineKinds : ChildWrite(k, st, kind)
    \/ \E k \in ChildIds : ChildExit(k)
    \/ \E k \in ChildIds, st \in Streams : MgrReaderStep(k, st)
    \/ \E s \in TargetIds : read_output(s)
    \/ \E s \in TargetIds : read_events(s)
    \/ \E s \in TargetIds : read_output_and_events(s)

SpecMgr == InitMgr /\ [][NextMgr]_vars

\* The registry under the scheduling the runtime gives: every task that
\* can go on does go on (a lock that stays free is granted, a kill and
\* the wait after it return, a line that is read is dealt with). What a
\* child does, and whether callers call, is left to them.
FairSpecMgr ==
    /\ SpecMgr
    /\ \A c \in Calls :
          /\ WF_vars(KillAcquire(c))
          /\ WF_vars(KillFinish(c))
          /\ WF_vars(\E ok \in BOOLEAN : SendStdin(c, ok))
          /\ WF_vars(SendStore(c))
          /\ WF_vars(SendHold(c))
          /\ WF_vars(StopRemove(c))
    /\ \A k \in 1..MaxChildren :
          /\ WF_vars(k \in ChildIds /\ WaiterAcquire(k))
          /\ WF_vars(k \in ChildIds /\ WaiterReap(k))
          /\ \A st \in Streams : WF_vars(k \in ChildIds /\ MgrReaderStep(k, st))

\* ===================================================== GenericCliPlugin
\* A string that may hold placeholders is a sequence of pieces; a piece
\* is either a placeholder such as "{message}" or literal text.
Placeholder(key) == "{" \o key \o "}"

RECURSIVE ReplaceIn(_, _, _)
\* str::replace(&format!("{{{}}}", key), value) on one argument
ReplaceIn(arg, key, value) ==
    IF arg = <<>> THEN <<>>
    ELSE (IF Head(arg) = Placeholder(key) THEN value ELSE <<Head(arg)>>)
         \o ReplaceIn(Tail(arg), key, value)

RECURSIVE ReplaceAll(_, _, _)
\* the inner loop "for (key, value) in vars", in the map's iteration order
ReplaceAll(arg, variables, order) ==
    IF order = <<>> THEN arg
    ELSE ReplaceAll(ReplaceIn(arg, Head(order), variables[Head(order)]), variables,
                    Tail(order))

\* PluginConfig::replace_variables; `order` is the order in which the
\* HashMap yields its keys.
replace_variables(template, variables, order) ==
    [i \in 1..Len(template) |-> ReplaceAll(template[i], variables, order)]

\* The orders a HashMap with these keys may iterate in.
KeyOrders(keys) ==
    {o \in [1..Cardinality(keys) -> keys] : \A i, j \in 1..Cardinality(keys) :
                                                i # j => o[i] # o[j]}

\* order is one of the orders a HashMap with these keys may iterate in
IsOrderOf(order, keys) ==
    /\ Len(order) = Cardinality(keys)
    /\ {order[i] : i \in 1..Len(order)} = keys

\* Every iteration order of the variable maps send_message builds.
SendKeyOrders ==
    KeyOrders({"message", "project_path", "session_id"})
        \cup KeyOrders({"message", "project_path"})

\* validate without its check of plugin.cli_command.
validate_TemplatesOnly(cfg) ==
    /\ cfg.start_session # <<>>
    /\ cfg.send_message # <<>>

\* PluginConfig::validate
validate(cfg) ==
    /\ cfg.cli_command # ""
    /\ cfg.start_session # <<>>
    /\ cfg.send_message # <<>>

StartTemplate  == << <<"start">>, <<"{project_path}">> >>
SendTemplate   == << <<"-p">>, <<"{message}">> >>
ResumeTemplate == << <<"-r">>, <<"{session_id}">>, <<"-p">>, <<"{message}">> >>

\* The manifests the adapter is constructed from.
Configs ==
    [cli_command : {"", "tool"},
     start_session : {<<>>, StartTemplate},
     send_message : {<<>>, SendTemplate},
     resume_session : {NoneT, SomeT(ResumeTemplate)},
     session_resume : BOOLEAN,          \* capabilities.session_resume
     session_id_pattern : BOOLEAN]      \* output_parsing.session_id_pattern is Some

InitCli ==
    /\ component = "cli"
    /\ config \in Configs
    /\ plugin = "unbuilt"
    /\ sessions = << >>
    /\ InitCommon

\* GenericCliPlugin::new
New ==
    /\ component = "cli"
    /\ plugin = "unbuilt"
    /\ plugin' = IF validate(config) THEN "ok" ELSE "err"
    /\ UNCHANGED <<component, config, eval, plugins, sessions, nextSession, initPending, children,
                   calls, hist>>

NewCliSession(cli_session_id) ==
    [cli_session_id |-> cli_session_id, process_id |-> NoChild,
     output_buffer |-> <<>>, events_buffer |-> <<>>,
     is_running |-> TRUE, error |-> None]

\* GenericCliPlugin::start_session
cli_start_session(path_exists) ==
    /\ component = "cli" /\ plugin = "ok"
    /\ nextSession <= MaxSessions
    /\ IF ~path_exists
       THEN /\ eval' = Returned("start_session", FALSE, Err("Project path does not exist"))
            /\ UNCHANGED <<component, config, plugins, plugin, sessions, nextSession,
                           initPending, children, calls, hist>>
       ELSE /\ sessions' = sessions @@ (nextSession :> NewCliSession(None))
            /\ nextSession' = nextSession + 1
            /\ eval' = Returned("start_session", TRUE, Ok(nextSession))
            /\ UNCHANGED <<component, config, plugins, plugin, initPending, children, calls, hist>>

\* resume_session creating the session without the vendor id.
cli_resume_session_NoVendorId(cli_session_id, path_exists) ==
    /\ component = "cli" /\ plugin = "ok"
    /\ nextSession <= MaxSessions
    /\ IF ~config.session_resume \/ ~path_exists
       THEN /\ eval' = Returned("resume_session", path_exists,
                                IF ~config.session_resume
                                THEN Err("Plugin does not support session resume")
                                ELSE Err("Project path does not exist"))
            /\ UNCHANGED <<component, config, plugins, plugin, sessions, nextSession,
                           initPending, children, calls, hist>>
       ELSE /\ sessions' = sessions @@ (nextSession :> NewCliSession(None))
            /\ nextSession' = nextSession + 1
            /\ eval' = Returned("resume_session", TRUE, Ok(nextSession))
            /\ UNCHANGED <<component, config, plugins, plugin, initPending, children, calls, hist>>

\* GenericCliPlugin::resume_session
cli_resume_session(cli_session_id, path_exists) ==
    /\ component = "cli" /\ plugin = "ok"
    /\ nextSession <= MaxSessions
    /\ IF ~config.session_resume \/ ~path_exists
       THEN /\ eval' = Returned("resume_session", path_exists,
                                IF ~config.session_resume
                                THEN Err("Plugin does not support session resume")
                                ELSE Err("Project path does not exist"))
            /\ UNCHANGED <<component, config, plugins, plugin, sessions, nextSession,
                           initPending, children, calls, hist>>
       ELSE /\ sessions' = sessions @@ (nextSession :> NewCliSession(cli_session_id))
            /\ nextSession' = nextSession + 1
            /\ eval' = Returned("resume_session", TRUE, Ok(nextSession))
            /\ UNCHANGED <<component, config, plugins, plugin, initPending, children, calls, hist>>

\* GenericCliPlugin::stop_session: removes the entry, nothing else.
cli_stop_session(c, s) ==
    /\ component = "cli" /\ plugin = "ok"
    /\ calls[c].pc = "idle"
    /\ \A d \in Calls : d < c => calls[d].pc # "idle"
    /\ IF s \in Registered
       THEN /\ sessions' = [t \in Registered \ {s} |-> sessions[t]]
            /\ calls' = [calls EXCEPT ![c] = [IdleCall EXCEPT !.op = "stop", !.sid = s,
                                                !.pc = "done", !.res = "ok"]]
       ELSE /\ sessions' = sessions
            /\ calls' = [calls EXCEPT ![c] = [IdleCall EXCEPT !.op = "stop", !.sid = s,
                                                !.pc = "done", !.res = "notfound"]]
    /\ UNCHANGED <<component, config, eval, plugins, plugin, nextSession, initPending, children, hist>>

\* The variables send_message hands to replace_variables.
SendVars(message, cli_session_id) ==
    IF cli_session_id # None
    THEN [key \in {"message", "project_path", "session_id"} |->
             CASE key = "message" -> message
               [] key = "project_path" -> <<"/proj">>
               [] OTHER -> <<cli_session_id>>]
    ELSE [key \in {"message", "project_path"} |->
             IF key = "message" THEN message ELSE <<"/proj">>]

\* "Choose the appropriate command"
TemplateName(cfg, cli_session_id) ==
    IF cli_session_id # None /\ cfg.resume_session.some THEN "resume" ELSE "send"

CommandTemplate(cfg, name) ==
    IF name = "resume" THEN cfg.resume_session.v ELSE cfg.send_message

Messages == { <<"hello">> }

\* GenericCliPlugin::send_message up to its sessions.write().await: look
\* the session up, choose the template, substitute, spawn.
cli_send_message(c, s, message, order, spawn_ok) ==
    /\ component = "cli" /\ plugin = "ok"
    /\ calls[c].pc = "idle"
    /\ \A d \in Calls : d < c => calls[d].pc # "idle"
    /\ IF s \notin Registered
       THEN /\ calls' = [calls EXCEPT ![c] = [IdleCall EXCEPT !.op = "send", !.sid = s,
                                                !.pc = "done", !.res = "notfound"]]
            /\ UNCHANGED children
       ELSE LET id == sessions[s].cli_session_id
                vv == SendVars(message, id)
                name == TemplateName(config, id)
            IN /\ IsOrderOf(order, DOMAIN vv)
               /\ IF ~spawn_ok
                  THEN /\ calls' = [calls EXCEPT ![c] =
                              [IdleCall EXCEPT !.op = "send", !.sid = s,
                                               !.pc = "done", !.res = "error"]]
                       /\ UNCHANGED children
                  ELSE /\ Len(children) < MaxChildren
                       /\ children' = Append(children, NewChild(s, name,
                              replace_variables(CommandTemplate(config, name), vv, order)))
                       /\ calls' = [calls EXCEPT ![c] =
                              [IdleCall EXCEPT !.op = "send", !.sid = s, !.pc = "store",
                                               !.k = Len(children) + 1]]
    /\ UNCHANGED <<component, config, eval, plugins, plugin, sessions, nextSession, initPending, hist>>

\* CliSendStore marking the session running and free of error again.
CliSendStore_Revives(c) ==
    /\ component = "cli"
    /\ calls[c].pc = "store"
    /\ LET s == calls[c].sid
           k == calls[c].k
       IN /\ sessions' = IF s \in Registered
                         THEN [sessions EXCEPT ![s].process_id = k,
                                               ![s].is_running = TRUE,
                                               ![s].error = None]
                         ELSE sessions
          /\ children' = [children EXCEPT ![k].readers = TRUE, ![k].waiter = "spawned"]
    /\ calls' = [calls EXCEPT ![c].pc = "done", ![c].res = "ok"]
    /\ UNCHANGED <<component, config, eval, plugins, plugin, nextSession, initPending, hist>>

\* "Update PID", then the reader tasks and the exit-waiter are spawned
\* and send_message returns Ok.
CliSendStore(c) ==
    /\ component = "cli"
    /\ calls[c].pc = "store"
    /\ LET s == calls[c].sid
           k == calls[c].k
       IN /\ sessions' = IF s \in Registered
                         THEN [sessions EXCEPT ![s].process_id = k]
                         ELSE sessions
          /\ children' = [children EXCEPT ![k].readers = TRUE, ![k].waiter = "spawned"]
    /\ calls' = [calls EXCEPT ![c].pc = "done", ![c].res = "ok"]
    /\ UNCHANGED <<component, config, eval, plugins, plugin, nextSession, initPending, hist>>

\* CliWaiter ending without touching the session.
CliWaiter_KeepsMarker(k, wait_ok) ==
    /\ component = "cli"
    /\ children[k].waiter = "spawned"
    /\ ~children[k].alive
    /\ children' = [children EXCEPT ![k].waiter = "done"]
    /\ UNCHANGED <<component, config, eval, plugins, plugin, sessions, nextSession, initPending, calls, hist>>

\* The exit-waiter: child.wait() returned, then the map's write lock.
CliWaiter(k, wait_ok) ==
    /\ component = "cli"
    /\ children[k].waiter = "spawned"
    /\ ~children[k].alive
    /\ children' = [children EXCEPT ![k].waiter = "done"]
    /\ LET s == children[k].sid IN
       sessions' = IF s \notin Registered THEN sessions
                   ELSE IF wait_ok
                        THEN [sessions EXCEPT ![s].process_id = NoChild]
                        ELSE [sessions EXCEPT ![s].error = "wait failed",
                                              ![s].is_running = FALSE]
    /\ UNCHANGED <<component, config, eval, plugins, plugin, nextSession, initPending, calls, hist>>

\* What one reader task of the adapter does to the session with a line:
\* only the stdout task looks for the session id.
CliAppend(cs, stream, line, cfg) ==
    [cs EXCEPT
       !.cli_session_id =
           IF stream = "stdout" /\ @ = None /\ cfg.session_id_pattern /\ line.kind = "sid"
           THEN line.id ELSE @,
       !.events_buffer = @ \o ParseLine(line),
       !.output_buffer = Append(@, RawItem(stream, line))]

CliReaderStep(k, stream) ==
    /\ component = "cli"
    /\ children[k].readers
    /\ children[k].pipe[stream] # <<>>
    /\ LET line == Head(children[k].pipe[stream])
           s == children[k].sid
       IN /\ children' = [children EXCEPT ![k].pipe[stream] = Tail(@)]
          /\ IF s \in Registered
             THEN /\ sessions' = [sessions EXCEPT ![s] = CliAppend(@, stream, line, config)]
                  /\ hist' = [hist EXCEPT ![s] = HistAppend(@, stream, line)]
             ELSE UNCHANGED <<sessions, hist>>
    /\ UNCHANGED <<component, config, eval, plugins, plugin, nextSession, initPending, calls>>

\* GenericCliPlugin::event_to_chunk
event_to_chunk(event) ==
    CASE event.type = "RawOutput" -> [chunk |-> "Text", content |-> event.line]
      [] event.type = "MessageReceived" -> [chunk |-> "Text", content |-> event.line]
      [] event.type = "Thinking" -> [chunk |-> "Thinking", content |-> event.line]
      [] event.type = "Error" -> [chunk |-> "Error", content |-> event.line]
      [] event.type = "CommandExecuted" -> [chunk |-> "ToolUse:bash", content |-> event.line]
      [] event.type = "FileChanged" -> [chunk |-> "ToolUse:file_operation", content |-> event.line]
      [] event.type = "TestRan" -> [chunk |-> "ToolResult:test", content |-> event.line]
      [] OTHER -> [chunk |-> "StatusUpdate", content |-> event.line]

Chunks(events) == [i \in 1..Len(events) |-> event_to_chunk(events[i])]

\* GenericCliPlugin::read_output: returns the events as chunks and clears
\* both buffers; the raw lines are returned to nobody.
cli_read_output(s) ==
    /\ component = "cli" /\ plugin = "ok"
    /\ IF s \notin Registered
       THEN UNCHANGED <<sessions, hist>>
       ELSE /\ sessions' = [sessions EXCEPT ![s].events_buffer = <<>>,
                                            ![s].output_buffer = <<>>]
            /\ hist' = [hist EXCEPT ![s].evRet = @ \o Chunks(sessions[s].events_buffer)]
    /\ UNCHANGED <<component, config, eval, plugins, plugin, nextSession, initPending, children, calls>>

NextCli ==
    \/ New
    \/ \E e \in BOOLEAN : cli_start_session(e)
    \/ \E e \in BOOLEAN : cli_resume_session("resumed", e)
    \/ \E c \in Calls, s \in TargetIds : cli_stop_session(c, s)
    \/ \E c \in Calls, s \in TargetIds, m \in Messages, ok \in BOOLEAN :
          \E o \in SendKeyOrders : cli_send_message(c, s, m, o, ok)
    \/ \E c \in Calls : CliSendStore(c)
    \/ \E k \in ChildIds, ok \in BOOLEAN : CliWaiter(k, ok)
    \/ \E k \in ChildIds, st \in Streams : CliReaderStep(k, st)
    \/ \E k \in ChildIds, st \in Streams, kind \in ChildLineKinds : ChildWrite(k, st, kind)
    \/ \E k \in ChildIds : ChildExit(k)
    \/ \E s \in TargetIds : cli_read_output(s)

SpecCli == InitCli /\ [][NextCli]_vars

\* The adapter with the progress its runtime gives: a send_message that
\* has spawned its child goes on to the pid update and spawns its tasks,
\* and an exit-waiter whose child.wait() can return is scheduled (the
\* map's write lock it then asks for is held only for short critical
\* sections). Nothing makes a child write or exit, or a caller call.
FairSpecCli ==
    /\ SpecCli
    /\ \A c \in Calls : WF_vars(CliSendStore(c))
    /\ \A k \in 1..MaxChildren :
          WF_vars(k \in ChildIds /\ \E ok \in BOOLEAN : CliWaiter(k, ok))

\* ------------------------------------------- both implementations at once
Init == InitMgr \/ InitCli

Next ==
    \/ component = "mgr" /\ NextMgr
    \/ component = "cli" /\ NextCli

Spec == Init /\ [][Next]_vars

\* ==================================================== history pagination
MaxHist   == 4      \* messages in a vendor session's history
MaxOffset == 2      \* largest offset a caller asks for
MaxLimit  == 3      \* largest limit a caller asks for

\* content.len() above which an "Analysis:" block counts as a continuation
AnalysisLen == 500

\* The exact substrings the scan looks for.
Markers == {"This session is being continued", "Conversation Flow Analysis",
            "Summary:", "conversation was summarized", "summarized below",
            "## Summary"}

\* A message content, as the scan sees it: the substrings of interest it
\* contains, and its length.
Contents ==
    { [subs |-> {}, len |-> 20],
      [subs |-> {"This session is being continued"}, len |-> 40],
      [subs |-> {"Analysis:"}, len |-> AnalysisLen],
      [subs |-> {"Analysis:"}, len |-> AnalysisLen + 1] }

\* The closure passed to rposition.
is_continuation(content) ==
    \/ content.subs \cap Markers # {}
    \/ ("Analysis:" \in content.subs /\ content.len > AnalysisLen)

\* Histories: message number i of a history carries id i.
Histories ==
    UNION { { [i \in 1..n |-> [id |-> i, content |-> cs[i]]] : cs \in [1..n -> Contents] }
            : n \in 0..MaxHist }

\* Iterator::rposition; indices count from 1 here, 0 stands for None.
rposition(all) ==
    LET hits == {i \in 1..Len(all) : is_continuation(all[i].content)}
    IN IF hits = {} THEN 0 ELSE CHOOSE i \in hits : \A j \in hits : j <= i

\* all[from..] of Rust, with from counted from 1
SliceFrom(all, from) == SubSeq(all, from, Len(all))

\* Vec::reverse
Reverse(seq) == [i \in 1..Len(seq) |-> seq[Len(seq) + 1 - i]]

Min(a, b) == IF a < b THEN a ELSE b

\* usize::saturating_sub
saturating_sub(a, b) == IF a > b THEN a - b ELSE 0

\* Pagination that applies offset and limit to the continuation case too.
paginated_AlwaysSliced(all, offset, limit) ==
    LET idx == rposition(all)
        filtered == IF idx # 0 THEN SliceFrom(all, idx)
                    ELSE SliceFrom(all, saturating_sub(Len(all), limit) + 1)
        reversed == Reverse(filtered)
        start == Min(offset, Len(filtered))
        end == Min(offset + limit, Len(filtered))
    IN [messages |-> SubSeq(reversed, start + 1, end),
        total_count |-> Len(filtered),
        has_more |-> end < Len(filtered),
        offset |-> offset]

\* GenericCliPlugin::get_conversation_history_paginated, on the history
\* that get_conversation_history returned.
get_conversation_history_paginated(all, offset, limit) ==
    LET idx == rposition(all)
        filtered == IF idx # 0 THEN SliceFrom(all, idx)
                    ELSE SliceFrom(all, saturating_sub(Len(all), limit) + 1)
        total_count == Len(filtered)
        reversed == Reverse(filtered)
        start == Min(offset, total_count)
        end == Min(offset + limit, total_count)
    IN [messages |-> IF idx # 0 THEN reversed ELSE SubSeq(reversed, start + 1, end),
        total_count |-> total_count,
        has_more |-> IF idx # 0 THEN FALSE ELSE end < total_count,
        offset |-> offset]

InitPage ==
    /\ component = "page"
    /\ config = NoConfig
    /\ plugin = "unbuilt"
    /\ sessions = << >>
    /\ nextSession = 1
    /\ initPending = {}
    /\ children = <<>>
    /\ calls = [c \in Calls |-> IdleCall]
    /\ hist = [s \in SessionIds |-> EmptyHist]
    /\ eval \in [fn : {"paginated"}, all : Histories, offset : 0..MaxOffset,
                 limit : 0..MaxLimit, done : {FALSE}, out : {NoEval}]
    /\ plugins = << >>

\* A caller asks for a page of the history.
Paginate ==
    /\ component = "page"
    /\ eval.fn = "paginated" /\ ~eval.done
    /\ eval' = [eval EXCEPT !.done = TRUE,
           !.out = get_conversation_history_paginated(eval.all, eval.offset, eval.limit)]
    /\ UNCHANGED <<component, config, plugin, plugins, sessions, nextSession,
                   initPending, children, calls, hist>>

NextPage == Paginate

SpecPage == InitPage /\ [][NextPage]_vars

\* ===================================================== plugin discovery
MaxPlugins == 2     \* subdirectories of the plugin root

PluginNames == {"alpha", "beta"}

\* What a plugin.toml parses to, as far as validation looks at it.
ManifestConfigs ==
    {cfg \in Configs : /\ cfg.resume_session = NoneT
                       /\ ~cfg.session_resume /\ ~cfg.session_id_pattern}

\* What a subdirectory holds as library file: none; one without the
\* create_plugin symbol; one whose create_plugin has another ABI; a
\* well-formed one (it reports the manifest's plugin name).
Libraries == {"none", "no_symbol", "wrong_abi", "good"}

\* A subdirectory of the plugin root: no plugin.toml, one that
\* PluginConfig::from_file rejects, or one that parses.
PluginDirs ==
    {[manifest |-> "none", name |-> "alpha", config |-> NoConfig, library |-> "none"]}
    \cup [manifest : {"unparsable"}, name : {"alpha"}, config : {NoConfig},
          library : {"none", "good"}]
    \cup [manifest : {"parsed"}, name : PluginNames, config : ManifestConfigs,
          library : Libraries]

PluginRoots == UNION {[1..n -> PluginDirs] : n \in 0..MaxPlugins}

\* loader::load_plugin_manifest succeeds: the manifest parses and
\* find_library_file finds a library.
load_plugin_manifest(dir) ==
    dir.manifest = "parsed" /\ dir.library # "none"

\* loader::discover_plugins: the indices of the subdirectories whose
\* manifest was loaded, in directory order.
discover_plugins(root) ==
    SelectSeq([i \in 1..Len(root) |-> i], LAMBDA i : load_plugin_manifest(root[i]))

\* What calling create_plugin through the wrong function type may do:
\* fail cleanly, hand back something that is registered, or kill the process.
AbiOutcomes == {"err", "registered", "abort"}

\* PluginManager::load_from_library on one manifest's library
load_from_library(dir, abi) ==
    CASE dir.library = "good" -> "registered"
      [] dir.library = "wrong_abi" -> abi
      [] OTHER -> "err"

RECURSIVE LoadAll(_, _, _, _)
\* The for loop of discover_and_load over the manifests still to do;
\* acc is [plugins, loaded_count, aborted].
LoadAll(root, todo, abi, acc) ==
    IF todo = <<>> \/ acc.aborted THEN acc
    ELSE LET i == Head(todo)
             dir == root[i]
             how == load_from_library(dir, abi[i])
             entry == IF how = "registered" THEN "dynamic" ELSE "generic"
             added == \/ how = "registered"
                      \/ (how = "err" /\ validate(dir.config))
         IN LoadAll(root, Tail(todo), abi,
                [plugins |-> IF added
                             THEN [n \in DOMAIN acc.plugins \cup {dir.name} |->
                                      IF n = dir.name THEN entry ELSE acc.plugins[n]]
                             ELSE acc.plugins,
                 loaded_count |-> IF added THEN acc.loaded_count + 1
                                  ELSE acc.loaded_count,
                 aborted |-> how = "abort"])

InitLoad ==
    /\ component = "loader"
    /\ config = NoConfig
    /\ plugin = "unbuilt"
    /\ sessions = << >>
    /\ nextSession = 1
    /\ initPending = {}
    /\ children = <<>>
    /\ calls = [c \in Calls |-> IdleCall]
    /\ hist = [s \in SessionIds |-> EmptyHist]
    /\ plugins = << >>
    /\ eval \in [fn : {"discover"}, root : PluginRoots, exists : BOOLEAN,
                 done : {FALSE}, out : {NoEval}]

\* PluginManager::discover_and_load
discover_and_load(abi) ==
    /\ component = "loader"
    /\ eval.fn = "discover" /\ ~eval.done
    /\ \A i \in 1..Len(eval.root) : eval.root[i].library # "wrong_abi" => abi[i] = "err"
    /\ LET manifests == IF eval.exists THEN discover_plugins(eval.root) ELSE <<>>
           acc == LoadAll(eval.root, manifests, abi,
                          [plugins |-> plugins, loaded_count |-> 0, aborted |-> FALSE])
       IN /\ plugins' = acc.plugins
          /\ eval' = [eval EXCEPT !.done = TRUE,
                        !.out = IF acc.aborted THEN [fn |-> "aborted"]
                                ELSE [fn |-> "Ok", loaded_count |-> acc.loaded_count]]
    /\ UNCHANGED <<component, config, plugin, sessions, nextSession, initPending,
                   children, calls, hist>>

NextLoad == \E abi \in [1..Len(eval.root) -> AbiOutcomes] : discover_and_load(abi)

SpecLoad == InitLoad /\ [][NextLoad]_vars

\* =========================================== one send followed on its own
\* What follows one send_message that returned Ok on a fresh session, with
\* no further call on the session: the child writes, its reader tasks and
\* its exit-waiter run, the caller reads.
StreamConfig(pattern) ==
    [cli_command |-> "tool", start_session |-> StartTemplate,
     send_message |-> SendTemplate, resume_session |-> NoneT,
     session_resume |-> TRUE, session_id_pattern |-> pattern]

\* The state send_message leaves as it returns Ok: the child recorded in
\* the session, its reader tasks and its exit-waiter spawned.
InitStream ==
    /\ component \in {"mgr", "cli"}
    /\ eval = [fn |-> "stream"]
    /\ plugins = << >>
    /\ plugin = IF component = "mgr" THEN "unbuilt" ELSE "ok"
    /\ nextSession = 2
    /\ initPending = {}
    /\ hist = [s \in SessionIds |-> EmptyHist]
    /\ calls = [c \in Calls |-> IF c = 1
                               THEN [IdleCall EXCEPT !.op = "send", !.sid = 1, !.k = 1,
                                                     !.pc = "done", !.res = "ok"]
                               ELSE IdleCall]
    /\ \E id \in {None, "resumed"}, pattern \in BOOLEAN :
          IF component = "mgr"
          THEN /\ ~pattern
               /\ config = NoConfig
               /\ sessions = (1 :> [agent_type |-> "claude", status |-> "Running",
                                    pid |-> 1, claude_session_id |-> id,
                                    active_child |-> 1, output_buffer |-> <<>>,
                                    parsed_events |-> <<>>])
               /\ children = << [NewChild(1, None, <<>>) EXCEPT
                                    !.holder = 1, !.waiter = "spawned", !.readers = TRUE] >>
          ELSE /\ config = StreamConfig(pattern)
               /\ sessions = (1 :> [NewCliSession(id) EXCEPT !.process_id = 1])
               /\ children = << [NewChild(1, "send",
                                    replace_variables(SendTemplate, SendVars(<<"hello">>, id),
                                        IF id = None THEN <<"message", "project_path">>
                                        ELSE <<"message", "project_path", "session_id">>))
                                 EXCEPT !.waiter = "spawned", !.readers = TRUE] >>

NextStream ==
    \/ \E k \in ChildIds, st \in Streams, kind \in ChildLineKinds : ChildWrite(k, st, kind)
    \/ \E k \in ChildIds : ChildExit(k)
    \/ \E k \in ChildIds : WaiterAcquire(k)
    \/ \E k \in ChildIds : WaiterReap(k)
    \/ \E k \in ChildIds, st \in Streams : MgrReaderStep(k, st)
    \/ \E s \in Registered : read_output(s)
    \/ \E s \in Registered : read_events(s)
    \/ \E s \in Registered : read_output_and_events(s)
    \/ \E k \in ChildIds, ok \in BOOLEAN : CliWaiter(k, ok)
    \/ \E k \in ChildIds, st \in Streams : CliReaderStep(k, st)
    \/ \E s \in Registered : cli_read_output(s)

SpecStream == InitStream /\ [][NextStream]_vars

\* ============================================ adapter: one-shot queries
\* commands.list_sessions / commands.get_history of a manifest
ListTemplate    == << <<"list">>, <<"{project_path}">> >>
HistoryTemplate == << <<"history">>, <<"{session_id}">> >>

QueryCommands ==
    [list_sessions : {NoneT, SomeT(ListTemplate)},
     get_history : {NoneT, SomeT(HistoryTemplate)}]

\* How the one-shot CLI call ends: it cannot be spawned, it exits
\* non-zero, or it succeeds.
CliOutcomes == {"spawn_err", "nonzero", "ok"}


\* GenericCliPlugin::list_sessions; `listed` is what the CLI printed,
\* parsed.
list_sessions(commands, cli, listed) ==
    IF commands.list_sessions.some
    THEN (IF cli = "ok" THEN Ok(listed) ELSE Err("Failed to list sessions"))
    ELSE Ok(<<>>)

\* get_conversation_history answering an error without a history command.
get_conversation_history_Strict(commands, cli, all) ==
    IF commands.get_history.some /\ cli = "ok" THEN Ok(all)
    ELSE Err("Failed to get conversation history")

\* GenericCliPlugin::get_conversation_history; `all` is what the CLI
\* printed, parsed.
get_conversation_history(commands, cli, all) ==
    IF commands.get_history.some
    THEN (IF cli = "ok" THEN Ok(all) ELSE Err("Failed to get conversation history"))
    ELSE Ok(<<>>)

\* get_conversation_history_paginated from its first line on: the
\* history is loaded (an error is passed on), then paged.
paginated_history(commands, cli, all, offset, limit) ==
    LET loaded == get_conversation_history(commands, cli, all)
    IN IF loaded.ok
       THEN Ok(get_conversation_history_paginated(loaded.value, offset, limit))
       ELSE loaded

\* GenericCliPlugin::start_watching_session
start_watching_session ==
    Err("Session watching not supported for generic CLI plugins")

QueryFns == {"list_sessions", "get_conversation_history", "paginated_history",
             "start_watching_session"}

\* Histories short enough to page through with every query.
QueryHistories == {h \in Histories : Len(h) <= 2}

InitQuery ==
    /\ component = "query"
    /\ config = NoConfig
    /\ plugin = "ok"
    /\ sessions = << >>
    /\ nextSession = 1
    /\ initPending = {}
    /\ children = <<>>
    /\ calls = [c \in Calls |-> IdleCall]
    /\ hist = [s \in SessionIds |-> EmptyHist]
    /\ plugins = << >>
    /\ eval \in [fn : QueryFns, commands : QueryCommands, cli : CliOutcomes,
                 all : QueryHistories, offset : 0..MaxOffset, limit : 0..MaxLimit,
                 done : {FALSE}, out : {NoEval}]

\* A caller makes one of the adapter's one-shot queries.
Query ==
    /\ component = "query"
    /\ ~eval.done
    /\ eval' = [eval EXCEPT !.done = TRUE,
           !.out = CASE eval.fn = "list_sessions" ->
                         list_sessions(eval.commands, eval.cli, eval.all)
                     [] eval.fn = "get_conversation_history" ->
                         get_conversation_history(eval.commands, eval.cli, eval.all)
                     [] eval.fn = "paginated_history" ->
                         paginated_history(eval.commands, eval.cli, eval.all,
                                           eval.offset, eval.limit)
                     [] OTHER -> start_watching_session]
    /\ UNCHANGED <<component, config, plugin, plugins, sessions, nextSession,
                   initPending, children, calls, hist>>

NextQuery == Query

SpecQuery == InitQuery /\ [][NextQuery]_vars

\* ======================================================== OutputParser
MaxWords == 3
MaxClock == 2
MaxParses == 2
MaxSubsts == 2    \* calls of replace_variables on the same arguments

\* A line is its words, one blank between two of them, with or without
\* blanks around them; `lead` says there are some. trim() leaves the words.
Vocabulary ==
    {"Created:", "Deleted", "src/main.rs", "test", "passed", "failed", "Error:",
     "ran", "task", "done", "thinking", "sure?", "hello", "0", "2"}

RECURSIVE WordSeqs(_)
WordSeqs(n) ==
    IF n = 0 THEN {<<>>}
    ELSE LET shorter == WordSeqs(n - 1)
         IN shorter \cup {Append(ws, w) : ws \in {x \in shorter : Len(x) = n - 1},
                                            w \in Vocabulary}

\* Some lines of four words, which the test summary pattern needs, and
\* some with the prefixes "Fatal:" and "Warning:".
LongWordSeqs ==
    {<<"2", "passed", "0", "failed">>, <<"2", "passed", "2", "failed">>,
     <<"test", "hello", "hello", "passed">>, <<"task", "test", "hello", "done">>,
     <<"Fatal:", "hello">>, <<"Fatal:", "Error:", "hello">>, <<"Error:", "Fatal:", "hello">>,
     <<"Fatal:", "hello", "failed">>, <<"Warning:", "hello">>,
     <<"Warning:", "hello", "failed">>, <<"Warning:", "Error:", "hello">>,
     <<"Warning:", "Fatal:", "hello">>}

Lines == [lead : BOOLEAN, words : WordSeqs(MaxWords) \cup LongWordSeqs]

\* The words of the lines on which each pattern's keyword can end (the
\* keyword, an optional colon, then white space).
KeywordEnds ==
    [created |-> {"Created:"},      \* (?:created?|new file):?\s+
     modified |-> {},               \* (?:modified?|updated?):?\s+
     edited |-> {},                 \* (?:edited?|editing):?\s+
     wrote |-> {},                  \* (?:wrote?|writing):?\s+
     deleted |-> {"Deleted"},       \* (?:deleted?|removed?):?\s+
     test |-> {"test"},             \* (?:test|spec)\s+
     ran |-> {"ran"},               \* (?:ran?|executed?|running):?\s+
     fatal |-> {"Fatal:"},          \* fatal:?\s+
     error |-> {"Error:"},          \* error:?\s+
     warning |-> {"Warning:"},      \* warning:?\s+
     task |-> {"task"},             \* (?:task|job)\s+
     done |-> {"done"},             \* (?:completed?|done|finished):?\s+
     digits |-> {"0", "2"}]         \* (\d+)\s+

\* Those on which a closing keyword can start (white space, then the
\* keyword).
KeywordStarts ==
    [passed |-> {"passed"},                 \* \s+(?:passed|ok)
     failed |-> {"failed", "Error:"},       \* \s+(?:failed|error)
     summary_passed |-> {"passed"},         \* \s+passed
     summary_failed |-> {"failed"},         \* \s+failed
     done |-> {"done"},                     \* \s+(?:completed?|done|finished)
     created |-> {"Created:"}]              \* \s+(?:created?|added?)

\* The words that hold one of the substrings looked for.
WordsHolding ==
    [generic_error |-> {"failed"},    \* "failed", "cannot", "unable to"
     thinking |-> {"thinking"},       \* "thinking", "processing", "analyzing", ...
     prompt |-> {},                   \* "y/n", "yes/no", "press enter", ...
     question |-> {"sure?"}]          \* ends_with('?')

DigitValue(w) == IF w = "0" THEN 0 ELSE 2

Least(S) == CHOOSE i \in S : \A j \in S : i <= j

\* Text of a line from word i to its end.
Rest(ws, i) == SubSeq(ws, i, Len(ws))

\* Leftmost match of `keyword:?\s+(\S+)`: the index of the keyword's
\* word, 0 when there is no match.
FirstAfter(ws, Kw) ==
    LET I == {i \in 1..(Len(ws) - 1) : ws[i] \in Kw}
    IN IF I = {} THEN 0 ELSE Least(I)

\* Leftmost match of `keyword\s+(.+?)\s+closing`, the capture as short as
\* can be: <<index of the keyword's word, index of the closing word>>, or
\* <<0, 0>>.
FirstBetween(ws, Kw, Closing) ==
    LET J(i) == {j \in (i + 2)..Len(ws) : ws[j] \in Closing}
        I == {i \in 1..Len(ws) : ws[i] \in Kw /\ J(i) # {}}
    IN IF I = {} THEN <<0, 0>> ELSE <<Least(I), Least(J(Least(I)))>>

RawOutput(line, now) == [type |-> "RawOutput", line |-> line, timestamp |-> now]
FileChanged(path, change_type, now) ==
    [type |-> "FileChanged", path |-> path, change_type |-> change_type,
     timestamp |-> now]
TestRan(name, passed, details, now) ==
    [type |-> "TestRan", name |-> name, passed |-> passed, details |-> details,
     timestamp |-> now]
CommandExecuted(command, exit_code, now) ==
    [type |-> "CommandExecuted", command |-> command, exit_code |-> exit_code,
     output |-> << >>, timestamp |-> now]
ErrorEvent(message, severity, now) ==
    [type |-> "Error", message |-> message, severity |-> severity, timestamp |-> now]
Warning(message, now) == [type |-> "Warning", message |-> message, timestamp |-> now]
TaskCompleted(description, now) ==
    [type |-> "TaskCompleted", description |-> description, timestamp |-> now]
TaskCreated(description, now) ==
    [type |-> "TaskCreated", description |-> description, timestamp |-> now]
Thinking(message, now) == [type |-> "Thinking", message |-> message, timestamp |-> now]
InputRequired(prompt, now) ==
    [type |-> "InputRequired", prompt |-> prompt, timestamp |-> now]

\* An Option is << >> or << value >>; the detectors answer an Option of
\* an event.
\* parse_file_change taking the keyword for the path of a created file.
parse_file_change_KeywordAsPath(ws, now) ==
    LET created == FirstAfter(ws, KeywordEnds.created)
        deleted == FirstAfter(ws, KeywordEnds.deleted)
    IN IF created # 0 THEN << FileChanged(ws[created], "Created", now) >>
       ELSE IF deleted # 0 THEN << FileChanged(ws[deleted + 1], "Deleted", now) >>
       ELSE << >>

parse_file_change(ws, now) ==
    LET created == FirstAfter(ws, KeywordEnds.created)
        modified == FirstAfter(ws, KeywordEnds.modified)
        edited == FirstAfter(ws, KeywordEnds.edited)
        wrote == FirstAfter(ws, KeywordEnds.wrote)
        deleted == FirstAfter(ws, KeywordEnds.deleted)
    IN IF created # 0 THEN << FileChanged(ws[created + 1], "Created", now) >>
       ELSE IF modified # 0 THEN << FileChanged(ws[modified + 1], "Modified", now) >>
       ELSE IF edited # 0 THEN << FileChanged(ws[edited + 1], "Modified", now) >>
       ELSE IF wrote # 0
       THEN << FileChanged(IF ws[wrote + 1] = "to" /\ wrote + 2 <= Len(ws)
                           THEN ws[wrote + 2] ELSE ws[wrote + 1], "Modified", now) >>
       ELSE IF deleted # 0 THEN << FileChanged(ws[deleted + 1], "Deleted", now) >>
       ELSE << >>

\* The test summary `(\d+)\s+passed.*?(\d+)\s+failed`: the two counts, or
\* << >>.
TestSummary(ws) ==
    LET J(i) == {j \in (i + 2)..(Len(ws) - 1) :
                      ws[j] \in KeywordEnds.digits /\ ws[j + 1] \in KeywordStarts.summary_failed}
        I == {i \in 1..(Len(ws) - 1) :
                  ws[i] \in KeywordEnds.digits /\ ws[i + 1] \in KeywordStarts.summary_passed /\ J(i) # {}}
    IN IF I = {} THEN << >>
       ELSE << DigitValue(ws[Least(I)]), DigitValue(ws[Least(J(Least(I)))]) >>

parse_test_result(ws, now) ==
    LET passed == FirstBetween(ws, KeywordEnds.test, KeywordStarts.passed)
        failed == FirstBetween(ws, KeywordEnds.test, KeywordStarts.failed)
        summary == TestSummary(ws)
    IN IF passed[1] # 0
       THEN << TestRan(SubSeq(ws, passed[1] + 1, passed[2] - 1), TRUE, << >>, now) >>
       ELSE IF failed[1] # 0
       THEN << TestRan(SubSeq(ws, failed[1] + 1, failed[2] - 1), FALSE, << ws >>, now) >>
       ELSE IF summary # << >>
       THEN << TestRan(<<"Test Summary">>, summary[2] = 0, << summary >>, now) >>
       ELSE << >>

\* No word of Vocabulary holds "exit" or a quote: the exit code is the
\* default and the command runs to the end of the line.
parse_command_execution(ws, now) ==
    LET ran == FirstAfter(ws, KeywordEnds.ran)
    IN IF ran # 0 THEN << CommandExecuted(Rest(ws, ran + 1), 0, now) >> ELSE << >>

parse_error_or_warning(ws, now) ==
    LET fatal == FirstAfter(ws, KeywordEnds.fatal)
        error == FirstAfter(ws, KeywordEnds.error)
        warning == FirstAfter(ws, KeywordEnds.warning)
    IN IF fatal # 0 THEN << ErrorEvent(Rest(ws, fatal + 1), "Fatal", now) >>
       ELSE IF error # 0 THEN << ErrorEvent(Rest(ws, error + 1), "Error", now) >>
       ELSE IF warning # 0 THEN << Warning(Rest(ws, warning + 1), now) >>
       ELSE IF \E i \in 1..Len(ws) : ws[i] \in WordsHolding.generic_error
       THEN << ErrorEvent(ws, "Error", now) >>
       ELSE << >>

parse_task_completion(ws, now) ==
    LET complete == FirstBetween(ws, KeywordEnds.task, KeywordStarts.done)
        done == FirstAfter(ws, KeywordEnds.done)
    IN IF complete[1] # 0
       THEN << TaskCompleted(SubSeq(ws, complete[1] + 1, complete[2] - 1), now) >>
       ELSE IF done # 0 THEN << TaskCompleted(Rest(ws, done + 1), now) >>
       ELSE << >>

parse_task_created(ws, now) ==
    LET created == FirstBetween(ws, KeywordEnds.task, KeywordStarts.created)
    IN IF created[1] # 0
       THEN << TaskCreated(SubSeq(ws, created[1] + 1, created[2] - 1), now) >>
       ELSE << >>

is_thinking(ws) == \E i \in 1..Len(ws) : ws[i] \in WordsHolding.thinking

\* Every line here is shorter than 200 bytes.
is_input_required(ws) ==
    \/ \E i \in 1..Len(ws) : ws[i] \in WordsHolding.prompt
    \/ Len(ws) > 0 /\ ws[Len(ws)] \in WordsHolding.question

\* parse_line dropping the raw event of a line that a detector matches.
parse_line_RawOnlyIfUnmatched(line, now) ==
    LET ws == line.words
        found == parse_file_change(ws, now) \o parse_test_result(ws, now)
                 \o parse_command_execution(ws, now) \o parse_error_or_warning(ws, now)
                 \o parse_task_completion(ws, now) \o parse_task_created(ws, now)
    IN IF ws = << >> THEN << >>
       ELSE IF found = << >> THEN << RawOutput(line, now) >> ELSE found

\* OutputParser::parse_line, that is parse_lines of one line; `now` is
\* what the clock says when the call starts.
parse_line(line, now) ==
    LET ws == line.words
    IN IF ws = << >> THEN << >>
       ELSE << RawOutput(line, now) >>
            \o parse_file_change(ws, now)
            \o parse_test_result(ws, now)
            \o parse_command_execution(ws, now)
            \o parse_error_or_warning(ws, now)
            \o parse_task_completion(ws, now)
            \o parse_task_created(ws, now)
            \o (IF is_thinking(ws) THEN << Thinking(<< ws >>, now) >> ELSE << >>)
            \o (IF is_input_required(ws) THEN << InputRequired(ws, now) >> ELSE << >>)

\* One parser, one line under study: `outs` are the results of the calls
\* made with that line so far, `others` counts the calls made with other
\* lines, `clock` is the time of the latest call.
InitParse ==
    /\ component = "parser"
    /\ config = NoConfig
    /\ plugin = "ok"
    /\ sessions = << >>
    /\ nextSession = 1
    /\ initPending = {}
    /\ children = <<>>
    /\ calls = [c \in Calls |-> IdleCall]
    /\ hist = [s \in SessionIds |-> EmptyHist]
    /\ plugins = << >>
    /\ eval \in [fn : {"parse_line"}, line : Lines, outs : {<<>>}, others : {0},
                 clock : {1}]

\* parse_line is called with the line under study.
Parse(now) ==
    /\ component = "parser"
    /\ Len(eval.outs) < MaxParses
    /\ now >= eval.clock
    /\ eval' = [eval EXCEPT !.outs = Append(@, parse_line(eval.line, now)),
                            !.clock = now]
    /\ UNCHANGED <<component, config, plugin, plugins, sessions, nextSession,
                   initPending, children, calls, hist>>

\* parse_line is called with another line; its result is of no interest
\* and the parser keeps nothing of it.
ParseOther(other, now) ==
    /\ component = "parser"
    /\ eval.others < 1
    /\ other # eval.line
    /\ now >= eval.clock
    /\ eval' = [eval EXCEPT !.others = @ + 1, !.clock = now]
    /\ UNCHANGED <<component, config, plugin, plugins, sessions, nextSession,
                   initPending, children, calls, hist>>

\* Lines that stand for the ones another call may carry.
OtherLines ==
    {[lead |-> FALSE, words |-> <<"Created:", "src/main.rs">>],
     [lead |-> FALSE, words |-> <<"hello">>]}

NextParse ==
    \/ \E now \in 1..MaxClock : Parse(now)
    \/ \E other \in OtherLines, now \in 1..MaxClock : ParseOther(other, now)

SpecParse == InitParse /\ [][NextParse]_vars

\* ============================================= template substitution
\* replace_variables applied to the templates with the variables
\* send_message builds, for messages that hold placeholder text themselves.
SubstMessages ==
    { <<"hello">>, <<"{project_path}">>, <<"see ", "{session_id}">>, <<"{message}">> }

SubstTemplates == {StartTemplate, SendTemplate, ResumeTemplate}

InitSubst ==
    /\ component = "subst"
    /\ config = NoConfig
    /\ plugin = "ok"
    /\ sessions = << >>
    /\ nextSession = 1
    /\ initPending = {}
    /\ children = <<>>
    /\ calls = [c \in Calls |-> IdleCall]
    /\ hist = [s \in SessionIds |-> EmptyHist]
    /\ plugins = << >>
    /\ eval \in [fn : {"replace_variables"}, template : SubstTemplates,
                 message : SubstMessages, cli_session_id : {None, "resumed"},
                 outs : {<<>>}]

\* One call of replace_variables; order is the order in which the
\* HashMap yields its keys in that call.
Substitute(order) ==
    /\ component = "subst"
    /\ Len(eval.outs) < MaxSubsts
    /\ LET vv == SendVars(eval.message, eval.cli_session_id) IN
       /\ IsOrderOf(order, DOMAIN vv)
       /\ eval' = [eval EXCEPT !.outs = Append(@,
                      [order |-> order,
                       out |-> replace_variables(eval.template, vv, order)])]
    /\ UNCHANGED <<component, config, plugin, plugins, sessions, nextSession,
                   initPending, children, calls, hist>>

NextSubst == \E order \in SendKeyOrders : Substitute(order)

SpecSubst == InitSubst /\ [][NextSubst]_vars

\* ============================================== the headless command
\* "use 16KB as safe threshold"
StdinThreshold == 16384

\* A message is its text and the length of the text in bytes.
CommandMessages ==
    { [text |-> "", len |-> 0], [text |-> "-", len |-> 1], [text |-> "hi", len |-> 2],
      [text |-> "m16383", len |-> 16383], [text |-> "m16384", len |-> 16384],
      [text |-> "m16385", len |-> 16385] }

CommandAgents == {"claude", "Claude-Code", "aider", "gemini", "gemini-cli", "cursor"}

\* str::to_lowercase on the agent types above
to_lowercase(agent_type) ==
    IF agent_type = "Claude-Code" THEN "claude-code" ELSE agent_type

\* get_headless_command with its threshold counted as large.
get_headless_command_AtThreshold(agent_type, message, claude_session_id, model, installed) ==
    LET use_stdin == message.len >= StdinThreshold
        prompt == IF use_stdin THEN "-" ELSE message.text
        lower == to_lowercase(agent_type)
        Cmd(program, args) == Ok([program |-> program, args |-> args, use_stdin |-> use_stdin])
    IN CASE lower \in {"claude", "claude-code"} ->
              IF installed
              THEN Cmd("claude",
                       (IF claude_session_id # None THEN <<"-r", claude_session_id>>
                        ELSE <<"-c">>)
                       \o <<"-p", prompt, "--output-format", "text",
                            "--permission-mode", "bypassPermissions">>
                       \o (IF model # "" THEN <<"--model", model>> ELSE <<>>))
              ELSE Err("Claude CLI not found")
         [] lower = "aider" ->
              IF installed
              THEN Cmd("aider", IF use_stdin THEN <<"--yes">>
                                ELSE <<"--yes", "--message", message.text>>)
              ELSE Err("Aider CLI not found")
         [] lower \in {"gemini", "gemini-cli"} ->
              IF installed
              THEN Cmd("gemini",
                       (IF claude_session_id # None THEN <<"--resume", claude_session_id>>
                        ELSE <<>>)
                       \o <<prompt, "-o", "text", "--yolo">>)
              ELSE Err("Gemini CLI not found")
         [] OTHER -> Err("Unsupported agent type")

\* AgentManager::get_headless_command: program, arguments and whether
\* the message goes on stdin. `model` is the user's setting of the model
\* flag ("" when unset), `installed` is which::which's answer.
get_headless_command(agent_type, message, claude_session_id, model, installed) ==
    LET use_stdin == message.len > StdinThreshold
        prompt == IF use_stdin THEN "-" ELSE message.text
        lower == to_lowercase(agent_type)
        Cmd(program, args) == Ok([program |-> program, args |-> args, use_stdin |-> use_stdin])
    IN CASE lower \in {"claude", "claude-code"} ->
              IF installed
              THEN Cmd("claude",
                       (IF claude_session_id # None THEN <<"-r", claude_session_id>>
                        ELSE <<"-c">>)
                       \o <<"-p", prompt, "--output-format", "text",
                            "--permission-mode", "bypassPermissions">>
                       \o (IF model # "" THEN <<"--model", model>> ELSE <<>>))
              ELSE Err("Claude CLI not found")
         [] lower = "aider" ->
              IF installed
              THEN Cmd("aider", IF use_stdin THEN <<"--yes">>
                                ELSE <<"--yes", "--message", message.text>>)
              ELSE Err("Aider CLI not found")
         [] lower \in {"gemini", "gemini-cli"} ->
              IF installed
              THEN Cmd("gemini",
                       (IF claude_session_id # None THEN <<"--resume", claude_session_id>>
                        ELSE <<>>)
                       \o <<prompt, "-o", "text", "--yolo">>)
              ELSE Err("Gemini CLI not found")
         [] OTHER -> Err("Unsupported agent type")

InitCommand ==
    /\ component = "command"
    /\ config = NoConfig
    /\ plugin = "ok"
    /\ sessions = << >>
    /\ nextSession = 1
    /\ initPending = {}
    /\ children = <<>>
    /\ calls = [c \in Calls |-> IdleCall]
    /\ hist = [s \in SessionIds |-> EmptyHist]
    /\ plugins = << >>
    /\ eval \in [fn : {"get_headless_command"}, agent_type : CommandAgents,
                 message : CommandMessages, claude_session_id : {None, "resumed"},
                 model : {"", "opus"}, installed : BOOLEAN,
                 done : {FALSE}, out : {NoEval}, stdin : {"none"}, written : {<<>>}]

\* send_message from get_headless_command to the end of the stdin write:
\* the command is built, the child is spawned with stdin piped or null,
\* and a message that goes on stdin is written to it before it is closed.
Command ==
    /\ component = "command"
    /\ ~eval.done
    /\ LET out == get_headless_command(eval.agent_type, eval.message,
                                       eval.claude_session_id, eval.model, eval.installed)
       IN eval' = [eval EXCEPT
                     !.done = TRUE,
                     !.out = out,
                     !.stdin = IF ~out.ok THEN "none"
                               ELSE IF out.value.use_stdin THEN "piped" ELSE "null",
                     !.written = IF out.ok /\ out.value.use_stdin
                                 THEN << eval.message.text >> ELSE << >>]
    /\ UNCHANGED <<component, config, plugin, plugins, sessions, nextSession,
                   initPending, children, calls, hist>>

NextCommand == Command

SpecCommand == InitCommand /\ [][NextCommand]_vars

\* ================================================================ claims
\* Send calls on session s that have returned Ok.
SendsReturned(s) ==
    {c \in Calls : calls[c].op = "send" /\ calls[c].sid = s /\ calls[c].pc = "done"
                   /\ calls[c].res = "ok"}

\* C1: in every reachable state of the registry each session has at most
\* one live child process spawned by send_message.
C1_AtMostOneLiveChild ==
    \A s \in SessionIds : Cardinality(LiveChildrenOf(s)) <= 1

\* C2: a send_message on a session whose previous child still runs never
\* queues behind that child: it is never found waiting for the child
\* holder's lock while the exit-waiter keeps that lock for as long as
\* the (still running) child lives.
C2_SendNeverQueuesBehindChild ==
    \A c \in Calls :
        ~ /\ calls[c].op = "send"
          /\ calls[c].pc = "kill_holder"
          /\ children[calls[c].h].hlock = "waiter"
          /\ Live(calls[c].h)

\* C3: once two send_message calls on one session have both returned, and
\* while the later-spawned child has not exited, that child is the only
\* live child of the session and the session's pid field records it.
C3_OneLiveChildAfterTwoSends ==
    \A s \in Registered :
        \A c1, c2 \in SendsReturned(s) :
            (c1 # c2 /\ calls[c1].k < calls[c2].k /\ Live(calls[c2].k))
            => /\ LiveChildrenOf(s) = {calls[c2].k}
               /\ sessions[s].pid = calls[c2].k

\* C4: in what the readers appended to a session's raw and event buffers,
\* no line of an earlier send_message's child comes after a line of a
\* later send_message's child.
C4_NoInterleaving ==
    \A s \in SessionIds :
        /\ \A i, j \in 1..Len(hist[s].raw) :
               i < j => hist[s].raw[i].line.child <= hist[s].raw[j].line.child
        /\ \A i, j \in 1..Len(hist[s].ev) :
               i < j => hist[s].ev[i].line.child <= hist[s].ev[j].line.child

\* C5: once stop_session(s) of the registry has returned success, s is
\* not in the registry and no child spawned for s is still running.
C5_StopKillsChildren ==
    \A c \in Calls :
        (component = "mgr" /\ calls[c].op = "stop" /\ calls[c].pc = "done"
           /\ calls[c].res = "ok")
        => /\ calls[c].sid \notin Registered
           /\ LiveChildrenOf(calls[c].sid) = {}

\* C6: a stop_session that finishes on an id that is not in the registry
\* answers not-found and leaves the set of sessions as it was, in the
\* registry and in the adapter alike.
C6_StopUnknownNotFound ==
    [][\A c \in Calls :
          (calls[c].pc # "done" /\ calls'[c].pc = "done" /\ calls'[c].op = "stop"
             /\ calls'[c].sid \notin DOMAIN sessions)
          => (calls'[c].res = "notfound" /\ DOMAIN sessions' = DOMAIN sessions)]_vars

\* A stop_session on an id that was started and already stopped got not-found.
C6_Witness ==
    \E c, d \in Calls :
        /\ calls[c].op = "stop" /\ calls[c].res = "notfound"
        /\ calls[d].op = "stop" /\ calls[d].res = "ok" /\ calls[d].sid = calls[c].sid

\* Drain-and-clear of the registry's two buffers and of the adapter's
\* event buffer: what the reads returned so far, followed by what the
\* buffer holds, is what the readers appended, in append order.
DrainedInOrder(s) ==
    IF component = "mgr"
    THEN /\ hist[s].raw = hist[s].rawRet \o sessions[s].output_buffer
         /\ hist[s].ev = hist[s].evRet \o sessions[s].parsed_events
    ELSE Chunks(hist[s].ev) = hist[s].evRet \o Chunks(sessions[s].events_buffer)

\* C7 (amended): drain-and-clear holds for the registry's raw and event
\* buffers and for the adapter's event buffer: every appended item is
\* returned by at most one read, in append order, none is skipped, and
\* a read leaves nothing behind for the read that follows it.
C7_DrainAndClear ==
    \A s \in Registered : DrainedInOrder(s)

\* A read has returned items and the readers have appended more since.
C7_Witness ==
    \E s \in Registered :
        /\ component = "mgr"
        /\ hist[s].rawRet # <<>> /\ sessions[s].output_buffer # <<>>
        /\ hist[s].evRet # <<>> /\ sessions[s].parsed_events # <<>>

\* C7 as stated: drain-and-clear for each buffer, raw output and events,
\* of the registry and of the adapter.
C7_DrainAndClearEachBuffer ==
    \A s \in Registered :
        /\ DrainedInOrder(s)
        /\ component = "cli" => hist[s].raw = hist[s].rawRet \o sessions[s].output_buffer

\* Ids of the lines matching the session-id pattern that the readers
\* have taken from the output of session s's children.
MatchedIds(s) ==
    {hist[s].raw[i].line.id : i \in {j \in 1..Len(hist[s].raw) :
                                         hist[s].raw[j].line.kind = "sid"}}

\* C8: in the adapter, a send_message on a session without a vendor id
\* spawns from the send template; one issued after a line matching the
\* configured pattern has appeared in the session's output spawns from
\* the resume template (when the config has one), with {session_id}
\* replaced by the session's vendor id.
C8_TemplateChoice ==
    [][\A k \in (1..Len(children')) \ (1..Len(children)) :
          component = "cli" =>
            LET s == children'[k].sid IN
            /\ sessions[s].cli_session_id = None => children'[k].template = "send"
            /\ (config.session_id_pattern /\ MatchedIds(s) # {} /\ config.resume_session.some)
               => /\ children'[k].template = "resume"
                  /\ sessions[s].cli_session_id # None
                  /\ children'[k].args[2] = <<sessions[s].cli_session_id>>]_vars

\* C9 (amended): GenericCliPlugin::new succeeds if and only if the CLI
\* command is non-empty and both the start_session and the send_message
\* templates are non-empty.
C9_NewSucceedsIff ==
    plugin # "unbuilt" =>
        (plugin = "ok" <=> (/\ config.cli_command # ""
                            /\ Len(config.start_session) > 0
                            /\ Len(config.send_message) > 0))

\* Construction was refused for a config whose two templates are non-empty.
C9_Witness ==
    /\ plugin = "err"
    /\ Len(config.start_session) > 0 /\ Len(config.send_message) > 0

\* C9 as stated: construction succeeds if and only if both templates
\* are non-empty.
C9_NewSucceedsIffTemplates ==
    plugin # "unbuilt" =>
        (plugin = "ok" <=> (Len(config.start_session) > 0 /\ Len(config.send_message) > 0))

\* C10: when the most recent message holding a continuation marker is at
\* index i, the page is exactly the messages i..end, most recent first,
\* with has_more = FALSE, whatever offset and limit were asked for.
C10_ContinuationIgnoresLimit ==
    (component = "page" /\ eval.fn = "paginated" /\ eval.done) =>
        \A i \in 1..Len(eval.all) :
            (/\ is_continuation(eval.all[i].content)
             /\ \A j \in (i + 1)..Len(eval.all) : ~is_continuation(eval.all[j].content))
            => /\ Len(eval.out.messages) = Len(eval.all) - i + 1
               /\ \A n \in 1..Len(eval.out.messages) :
                      eval.out.messages[n] = eval.all[Len(eval.all) + 1 - n]
               /\ eval.out.has_more = FALSE

\* A page that is longer than the limit asked for, cut at a marker that
\* is neither the first nor the last message, with an older marker before it.
C10_Witness ==
    /\ component = "page" /\ eval.fn = "paginated" /\ eval.done
    /\ eval.offset > 0
    /\ Len(eval.out.messages) > eval.limit
    /\ Len(eval.out.messages) > 1
    /\ Len(eval.out.messages) < Len(eval.all) - 1
    /\ is_continuation(eval.all[1].content)

\* The page was computed for a history that holds no continuation marker.
PagedWithoutMarker ==
    /\ component = "page" /\ eval.fn = "paginated" /\ eval.done
    /\ \A i \in 1..Len(eval.all) : ~is_continuation(eval.all[i].content)

\* C11: without a marker, for a limit L smaller than the number n of
\* messages, offset 0 gives the L most recent messages, most recent
\* first, with has_more = TRUE.
C11_FirstPage ==
    (PagedWithoutMarker /\ eval.offset = 0 /\ eval.limit < Len(eval.all))
    => /\ Len(eval.out.messages) = eval.limit
       /\ \A m \in 1..Len(eval.out.messages) :
              eval.out.messages[m] = eval.all[Len(eval.all) + 1 - m]
       /\ eval.out.has_more = TRUE

\* C12: without a marker, for n messages, a limit L and any k with
\* k * L < n, offset k * L gives the k-th block of next-older messages:
\* those k * L + 1 .. min((k + 1) * L, n) places from the end, most
\* recent first.
C12_LaterPages ==
    PagedWithoutMarker =>
        \A k \in 0..MaxOffset :
            (eval.limit > 0 /\ eval.offset = k * eval.limit
               /\ k * eval.limit < Len(eval.all))
            => /\ Len(eval.out.messages)
                    = Min(eval.limit, Len(eval.all) - k * eval.limit)
               /\ \A m \in 1..Len(eval.out.messages) :
                      eval.out.messages[m]
                        = eval.all[Len(eval.all) + 1 - (k * eval.limit + m)]

\* discover_and_load has run on a plugin root that exists.
Discovered == component = "loader" /\ eval.fn = "discover" /\ eval.done /\ eval.exists

\* The subdirectory's manifest parses and passes validation.
ValidManifest(dir) == dir.manifest = "parsed" /\ validate(dir.config)

\* The subdirectory's manifest does not parse or lacks a required template.
BadManifest(dir) ==
    \/ dir.manifest = "unparsable"
    \/ (dir.manifest = "parsed"
          /\ (dir.config.start_session = <<>> \/ dir.config.send_message = <<>>))

\* C13: after discover_and_load, every subdirectory whose manifest
\* validates and whose library cannot be loaded (no constructor symbol,
\* wrong ABI, or no library file at all) has its plugin registered.
C13_FallbackToConfigAdapter ==
    Discovered =>
        \A i \in 1..Len(eval.root) :
            (ValidManifest(eval.root[i]) /\ eval.root[i].library # "good")
            => (eval.out.fn = "Ok" /\ eval.root[i].name \in DOMAIN plugins)

\* C14: when a subdirectory's manifest is unparsable or lacks a required
\* template, discover_and_load still returns Ok and every other
\* subdirectory with a valid manifest has its plugin registered.
C14_BadPluginSkipped ==
    Discovered =>
        \A i \in 1..Len(eval.root) :
            BadManifest(eval.root[i])
            => /\ eval.out.fn = "Ok"
               /\ \A j \in 1..Len(eval.root) :
                      (j # i /\ ValidManifest(eval.root[j]))
                      => eval.root[j].name \in DOMAIN plugins

\* C15: on an adapter whose config defines no list command list_sessions
\* answers Ok with nothing in it; on one that defines no history command
\* get_conversation_history answers Ok with nothing in it and
\* get_conversation_history_paginated answers Ok with an empty page;
\* start_watching_session answers an error whatever the config is.
C15_DegradeToEmpty ==
    (component = "query" /\ eval.done) =>
        /\ (eval.fn = "list_sessions" /\ ~eval.commands.list_sessions.some)
           => (eval.out.ok /\ eval.out.value = <<>>)
        /\ (eval.fn = "get_conversation_history" /\ ~eval.commands.get_history.some)
           => (eval.out.ok /\ eval.out.value = <<>>)
        /\ (eval.fn = "paginated_history" /\ ~eval.commands.get_history.some)
           => /\ eval.out.ok
              /\ eval.out.value.messages = <<>>
              /\ eval.out.value.total_count = 0
              /\ ~eval.out.value.has_more
        /\ eval.fn = "start_watching_session" => ~eval.out.ok

\* A page was asked for, with a limit above 0, of an adapter that has no
\* history command while its CLI cannot even be spawned.
C15_Witness ==
    /\ component = "query" /\ eval.done
    /\ eval.fn = "paginated_history" /\ ~eval.commands.get_history.some
    /\ eval.cli = "spawn_err" /\ eval.limit > 0 /\ eval.out.ok

\* The step ends a send_message of call c with a failure other than
\* "Session not found".
SendFails(c) ==
    /\ calls[c].res # "error" /\ calls'[c].res = "error"
    /\ calls'[c].op = "send"
    /\ calls'[c].sid \in Registered

\* C16: a send_message that fails on a registered session (unsupported
\* backend, CLI not installed, spawn failure, stdin write failure) leaves
\* that session in the map exactly as it was; and in the registry, once a
\* send on an id has failed, another send or stop on that id never
\* answers "Session not found" unless some other stop_session was called
\* on it.
C16_FailedSendKeepsSession ==
    [][ /\ \A c \in Calls : SendFails(c) =>
             /\ calls'[c].sid \in DOMAIN sessions'
             /\ sessions'[calls'[c].sid] = sessions[calls'[c].sid]
        /\ component' = "mgr" =>
             \A c, d \in Calls :
                 (/\ c # d
                  /\ calls'[c].op = "send" /\ calls'[c].res = "error"
                  /\ calls'[d].sid = calls'[c].sid /\ calls'[d].pc = "done"
                  /\ \A e \in Calls \ {d} :
                        ~(calls'[e].op = "stop" /\ calls'[e].sid = calls'[c].sid))
                 => calls'[d].res # "notfound" ]_vars

\* A send failed at the stdin write, and a second send on the same
\* session has returned Ok.
C16_Witness ==
    /\ component = "mgr"
    /\ calls[1].op = "send" /\ calls[1].res = "error" /\ calls[1].k # NoChild
    /\ calls[2].op = "send" /\ calls[2].sid = calls[1].sid /\ calls[2].res = "ok"
    /\ calls[1].sid \in Registered

\* No detector finds anything in the line.
Unmatched(ws) ==
    /\ parse_file_change(ws, 1) = << >> /\ parse_test_result(ws, 1) = << >>
    /\ parse_command_execution(ws, 1) = << >> /\ parse_error_or_warning(ws, 1) = << >>
    /\ parse_task_completion(ws, 1) = << >> /\ parse_task_created(ws, 1) = << >>
    /\ ~is_thinking(ws) /\ ~is_input_required(ws)

\* The result `out` of parsing `line` holds one RawOutput event, that
\* carries the line and comes first, and nothing else if no detector
\* matches.
RawOutputFirst(line, out) ==
    /\ out # << >>
    /\ out[1].type = "RawOutput" /\ out[1].line = line
    /\ \A i \in 2..Len(out) : out[i].type # "RawOutput"
    /\ Unmatched(line.words) => Len(out) = 1

\* C17 as stated: every line that is not empty (white space alone
\* included) gets exactly one RawOutput event, first, carrying the line,
\* and only that event when no detector matches.
C17_RawOutputForNonEmpty ==
    component = "parser" =>
        \A k \in 1..Len(eval.outs) :
            (eval.line.lead \/ eval.line.words # << >>)
                => RawOutputFirst(eval.line, eval.outs[k])

\* C17: every line that holds something else than white space gets
\* exactly one RawOutput event, first, carrying the line as it was given,
\* and only that event when no detector matches; a line of white space
\* alone gets no event at all; every call returns a list.
C17_RawOutputForNonBlank ==
    component = "parser" =>
        \A k \in 1..Len(eval.outs) :
            IF eval.line.words # << >>
            THEN RawOutputFirst(eval.line, eval.outs[k])
            ELSE eval.outs[k] = << >>

\* A line with white space around it in which two detectors match has
\* been parsed.
C17_Witness ==
    /\ component = "parser"
    /\ Len(eval.outs) >= 1
    /\ eval.line.lead /\ Len(eval.outs[1]) >= 3

\* An event list without its timestamps.
StripTime(out) ==
    [i \in 1..Len(out) |-> [f \in DOMAIN out[i] \ {"timestamp"} |-> out[i][f]]]

CreatedLine == [lead |-> FALSE, words |-> <<"Created:", "src/main.rs">>]

\* What the line "Created: src/main.rs" gives: one RawOutput and one
\* FileChanged{Created, "src/main.rs"}.
CreatedExample ==
    eval.line = CreatedLine =>
        \A k \in 1..Len(eval.outs) :
            LET out == eval.outs[k] IN
            /\ Len(out) = 2
            /\ out[1].type = "RawOutput" /\ out[1].line = CreatedLine
            /\ out[2].type = "FileChanged" /\ out[2].change_type = "Created"
            /\ out[2].path = "src/main.rs"

InKillActive(c) == calls[c].pc \in {"kill_holder", "kill_io"}

\* C19: under fair scheduling every kill-active step comes to its end,
\* whatever the child does: a call that is inside kill_active_process
\* leaves it, and a stop_session that has begun returns.
C19_CancellationCompletes ==
    \A c \in Calls :
        /\ InKillActive(c) ~> ~InKillActive(c)
        /\ (calls[c].op = "stop" /\ calls[c].pc # "done") ~> (calls[c].pc = "done")

\* Call c is suspended on a child's I/O: on its own child.kill() and
\* child.wait(), or on the holder's lock that the exit-waiter keeps for
\* the whole of its child.wait().
SuspendedOnChild(c) ==
    \/ calls[c].pc = "kill_io"
    \/ /\ calls[c].pc = "kill_holder"
       /\ children[calls[c].h].hlock = "waiter"
       /\ children[calls[c].h].waiter = "waiting"

\* C20: no call holds the session map's lock while it is suspended on a
\* child's kill, wait or exit, so that whoever needs the map (a start, a
\* read, a reader task, a stop) never waits for a child process.
C20_MapLockNotHeldAcrossIO ==
    component = "mgr" => \A c \in Calls : SuspendedOnChild(c) => c \notin ReadGuards

\* C21: in the adapter every session has at most one live child at any
\* time, also after two send_message calls of which the first child has
\* not yet exited.
C21_AdapterAtMostOneLiveChild ==
    component = "cli" => \A s \in SessionIds : Cardinality(LiveChildrenOf(s)) <= 1

\* C22: in the adapter, once stop_session has returned Ok for a session
\* no child spawned for that session is still running.
C22_AdapterStopKillsChildren ==
    component = "cli" =>
        \A c \in Calls :
            (calls[c].op = "stop" /\ calls[c].res = "ok") => LiveChildrenOf(calls[c].sid) = {}

\* The step in which kill-active, or the exit-waiter, takes child k's
\* handle for itself.
TakenByKill(k) == children[k].hlock # "kill" /\ children'[k].hlock = "kill"
TakenByWaiter(k) == children[k].waiter # "waiting" /\ children'[k].waiter = "waiting"

LinesOfItems(items) == [i \in 1..Len(items) |-> items[i].line]
LinesOfChunks(chunks) == [i \in 1..Len(chunks) |-> chunks[i].content]

\* Those of child k's stream st, in the order they have in `lines`.
Restrict(lines, k, st) == SelectSeq(lines, LAMBDA l : l.child = k /\ l.stream = st)

\* `lines` holds, of child k's stream st, exactly the lines its reader has
\* taken from the pipe, first written first.
InWrittenOrder(lines, k, st) ==
    LET r == Restrict(lines, k, st)
    IN /\ Len(r) = children[k].written[st] - Len(children[k].pipe[st])
       /\ \A i \in 1..Len(r) : r[i].n = i

VendorIdIn(ss, s) ==
    IF component = "mgr" THEN ss[s].claude_session_id ELSE ss[s].cli_session_id

\* A session-id pattern is in force: always in the registry, in the
\* adapter when the config gives one.
PatternInForce == component = "mgr" \/ config.session_id_pattern

\* C26: whenever a reader (of stdout or of stderr) takes a line for a
\* registered session, a vendor id that is already set stays as it is,
\* and with the vendor id unset a line matching the session-id pattern
\* sets the vendor id to the id that line carries.
C26_EitherStreamSetsVendorId ==
    [][\A s \in Registered \cap Registered' :
          Len(hist'[s].raw) = Len(hist[s].raw) + 1 =>
            LET item == hist'[s].raw[Len(hist'[s].raw)] IN
            /\ VendorIdIn(sessions, s) # None
                  => VendorIdIn(sessions', s) = VendorIdIn(sessions, s)
            /\ (PatternInForce /\ VendorIdIn(sessions, s) = None /\ item.line.kind = "sid")
                  => VendorIdIn(sessions', s) = item.line.id]_vars


\* C27: in the adapter, the exit-waiter of a child that has exited comes
\* to its end, unless the session is removed first; and when it does
\* while the session is registered, it either clears the session's
\* process_id (the wait succeeded) or records the error and marks the
\* session not running (the wait failed).
C27_ExitWaiterCompletes ==
    /\ [][\A k \in ChildIds :
            (/\ component = "cli"
             /\ children[k].waiter = "spawned"
             /\ children'[k].waiter = "done"
             /\ children[k].sid \in Registered)
            => LET s == children[k].sid IN
               /\ ~children[k].alive
               /\ \/ /\ sessions'[s].process_id = NoChild
                     /\ sessions'[s].error = sessions[s].error
                     /\ sessions'[s].is_running = sessions[s].is_running
                  \/ /\ sessions'[s].error # None
                     /\ ~sessions'[s].is_running
                     /\ sessions'[s].process_id = sessions[s].process_id]_vars
    /\ \A k \in 1..MaxChildren :
          (component = "cli" /\ k \in ChildIds /\ ~children[k].alive)
             ~> (/\ k \in ChildIds
                 /\ (children[k].waiter = "done" \/ children[k].sid \notin Registered))

\* Both ends have happened: one child's waiter cleared the marker of a
\* registered session, another's recorded a failed wait.
C27_Witness ==
    /\ component = "cli"
    /\ \E k \in ChildIds :
          /\ children[k].waiter = "done"
          /\ children[k].sid \in Registered
          /\ sessions[children[k].sid].process_id = NoChild
          /\ sessions[children[k].sid].error # None
          /\ ~sessions[children[k].sid].is_running


\* The children of session s whose send_message has returned.
SentChildren(s) ==
    {k \in ChildIds : children[k].sid = s /\ children[k].waiter # "none"}

\* C28: in the adapter, counting the children whose send_message has
\* returned and with no send_message of the session in progress: a
\* session whose process_id is None has no live child, and one whose
\* process_id is Some(p) has p as the pid of its latest child.
C28_MarkerAgreesWithChildren ==
    \A s \in Registered :
        (/\ component = "cli"
         /\ \A c \in Calls : ~(calls[c].op = "send" /\ calls[c].sid = s /\ calls[c].pc # "done"))
        => IF sessions[s].process_id = NoChild
           THEN \A k \in SentChildren(s) : ~children[k].alive
           ELSE /\ SentChildren(s) # {}
                /\ \A k \in SentChildren(s) : k <= sessions[s].process_id
                /\ sessions[s].process_id \in SentChildren(s)


\* C29: when a send_message of the registry returns, a child it spawned
\* that is still alive sits in the holder that the active_child of its
\* session, still registered, points to; a send_message returning an
\* error leaves no child of its own alive.
C29_NoUntrackedChild ==
    [][\A c \in Calls :
          (/\ component = "mgr"
           /\ calls[c].op = "send"
           /\ calls[c].pc # "done"
           /\ calls'[c].pc = "done"
           /\ calls'[c].k \in 1..Len(children')
           /\ children'[calls'[c].k].alive)
          => LET k == calls'[c].k
                 s == calls'[c].sid
             IN /\ calls'[c].res = "ok"
                /\ s \in Registered'
                /\ sessions'[s].active_child = k
                /\ children'[k].holder = k]_vars


\* The ids start_session has given out, and those of them that
\* stop_session has removed.
Started == 1..(nextSession - 1)
Removed == Started \ Registered

C31_InitCallBounded ==
    \A s \in SessionIds : (s \in initPending) ~> (s \notin initPending)


\* C32: when the init call of start_session ends without a vendor id,
\* the session stays in the registry as it was, with status Running and
\* its vendor id unset, and nothing else changes; afterwards the first
\* stdout line carrying a session id that a reader takes sets the
\* vendor id.
C32_InitFailureSwallowed ==
    [][\A s \in Registered :
          /\ (/\ s \in initPending /\ s \notin initPending'
              /\ sessions[s].claude_session_id = None
              /\ s \in Registered' /\ sessions'[s].claude_session_id = None)
             => /\ sessions' = sessions
                /\ sessions'[s].status = "Running"
                /\ UNCHANGED <<children, calls, hist, nextSession>>
          /\ (/\ s \in Registered'
              /\ sessions[s].claude_session_id = None
              /\ Len(hist'[s].raw) = Len(hist[s].raw) + 1
              /\ hist'[s].raw[Len(hist'[s].raw)].line.kind = "sid"
              /\ hist'[s].raw[Len(hist'[s].raw)].line.stream = "stdout")
             => sessions'[s].claude_session_id
                    = hist'[s].raw[Len(hist'[s].raw)].line.id]_vars

\* The init call of a claude session started without resume has ended
\* without an id, and the id was then taken from the output.
C32_Witness ==
    /\ component = "mgr"
    /\ \E s \in Registered \ initPending :
          /\ sessions[s].agent_type = "claude"
          /\ sessions[s].status = "Running"
          /\ \E n \in 1..MaxStreamLines :
                sessions[s].claude_session_id = VendorIdOf("stdout", n)


\* A start_session or resume_session call has just returned.
StartReturns == eval' # eval /\ eval'.fn \in {"start_session", "resume_session"}

\* C33: a start_session (of the registry or of the adapter) or a
\* resume_session given a project path that does not exist returns an
\* error, leaves the registered sessions as they were and spawns nothing.
C33_MissingPathRegistersNothing ==
    [][(StartReturns /\ ~eval'.path_exists)
          => /\ ~eval'.ok
             /\ sessions' = sessions
             /\ children' = children
             /\ nextSession' = nextSession
             /\ initPending' = initPending]_vars

\* A resume_session on a missing path has returned its error, on an
\* adapter whose config declares resume support.
C33_Witness ==
    /\ component = "cli"
    /\ config.session_resume
    /\ eval.fn = "resume_session"
    /\ ~eval.path_exists
    /\ ~eval.ok


C35_SessionStateMachine ==
    [][/\ \A s \in Registered :
             /\ component = "mgr" => sessions[s].status = "Running"
             /\ (component = "cli" /\ s \in Registered') =>
                  /\ ~sessions[s].is_running => ~sessions'[s].is_running
                  /\ sessions[s].error # None => sessions'[s].error = sessions[s].error
                  /\ (sessions[s].is_running <=> sessions[s].error = None)
                  /\ (sessions[s].is_running /\ ~sessions'[s].is_running) =>
                       /\ sessions'[s].error # None
                       /\ \E k \in ChildIds :
                             /\ children[k].sid = s
                             /\ ~children[k].alive
                             /\ children[k].waiter = "spawned"
                             /\ children'[k].waiter = "done"
             /\ s \notin Registered' =>
                  \E c \in Calls :
                     /\ calls'[c].op = "stop" /\ calls'[c].sid = s
                     /\ calls[c].pc # "done"
                     /\ calls'[c].pc = "done" /\ calls'[c].res = "ok"
       /\ \A s \in Registered' \ Registered :
             /\ s = nextSession
             /\ IF component = "mgr" THEN sessions'[s].status = "Running"
                ELSE sessions'[s].is_running /\ sessions'[s].error = None
       /\ \A s \in Removed : s \notin Registered']_vars

\* An adapter session is in its error state after a failed wait and has
\* had a send_message since.
C35_Witness ==
    /\ component = "cli"
    /\ \E s \in Registered :
          /\ ~sessions[s].is_running
          /\ sessions[s].error # None
          /\ \E k, j \in ChildIds :
                /\ k < j
                /\ children[k].sid = s /\ children[k].waiter = "done"
                /\ children[j].sid = s /\ children[j].waiter # "none"


RECURSIVE VerbatimArg(_, _)
\* One argument of a template with each placeholder piece replaced by
\* the value of its variable, the values being left as they are.
VerbatimArg(arg, variables) ==
    IF arg = <<>> THEN <<>>
    ELSE (IF \E key \in DOMAIN variables : Head(arg) = Placeholder(key)
          THEN variables[CHOOSE key \in DOMAIN variables : Head(arg) = Placeholder(key)]
          ELSE <<Head(arg)>>)
         \o VerbatimArg(Tail(arg), variables)

\* C36: replace_variables gives the template with every placeholder
\* replaced by its variable's value exactly as given, whatever the order
\* in which the variables are taken; so two calls with the same
\* arguments give the same result, and a message holding the text
\* "{project_path}" or "{session_id}" stays as it is.
C36_SubstitutionVerbatim ==
    (component = "subst") =>
        LET vv == SendVars(eval.message, eval.cli_session_id) IN
        \A i \in 1..Len(eval.outs) :
            /\ eval.outs[i].out
                  = [n \in 1..Len(eval.template) |-> VerbatimArg(eval.template[n], vv)]
            /\ \A j \in 1..Len(eval.outs) : eval.outs[j].out = eval.outs[i].out


\* The strings of an argument vector.
ArgsOf(args) == {args[i] : i \in 1..Len(args)}

\* C37: when send_message of the registry has a command for the
\* session's backend, the message goes on the child's stdin, and nowhere
\* in the arguments, if it is longer than 16 * 1024 bytes; otherwise the
\* child's stdin is null, nothing is written and the message is one of
\* the arguments. A command exists exactly for the supported backends
\* whose CLI is installed.
C37_DeliveryByLength ==
    (component = "command" /\ eval.done) =>
        /\ eval.out.ok <=>
              (/\ eval.installed
               /\ eval.agent_type \in {"claude", "Claude-Code", "aider", "gemini", "gemini-cli"})
        /\ eval.out.ok =>
              IF eval.message.len > 16 * 1024
              THEN /\ eval.out.value.use_stdin
                   /\ eval.stdin = "piped"
                   /\ eval.written = << eval.message.text >>
                   /\ eval.message.text \notin ArgsOf(eval.out.value.args)
              ELSE /\ ~eval.out.value.use_stdin
                   /\ eval.stdin = "null"
                   /\ eval.written = << >>
                   /\ eval.message.text \in ArgsOf(eval.out.value.args)

\* A message one byte over the threshold has been sent on stdin to a
\* backend that takes no message argument then.
C37_Witness ==
    /\ component = "command" /\ eval.done /\ eval.out.ok
    /\ eval.message.len = 16 * 1024 + 1
    /\ eval.agent_type = "aider"
    /\ eval.stdin = "piped"


\* C38: the total_count of a paginated history is the number of
\* messages in the session's history, whatever offset and limit are.
C38_TotalCountIsHistoryLength ==
    (component = "page" /\ eval.fn = "paginated" /\ eval.done) =>
        eval.out.total_count = Len(eval.all)


\* The file-change verb families whose pattern matches the words ws.
FileFamilies(ws) ==
    {f \in {"created", "modified", "edited", "wrote", "deleted"} :
        FirstAfter(ws, KeywordEnds[f]) # 0}

\* C39: a line gives one FileChanged event for each file-change verb
\* family whose pattern it matches, so a line matching a created-family
\* and a deleted-family verb gives two.
C39_EachFamilyEmits ==
    (component = "parser") =>
        \A i \in 1..Len(eval.outs) :
            Cardinality({j \in 1..Len(eval.outs[i]) : eval.outs[i][j].type = "FileChanged"})
                = Cardinality(FileFamilies(eval.line.words))


\* The Error and Warning events among the events evs.
ErrorsAndWarnings(evs) ==
    {j \in 1..Len(evs) : evs[j].type \in {"Error", "Warning"}}

\* C40: a line gives at most one Error or Warning event: Error(Fatal)
\* if it has a fatal prefix, else Error(Error) if it has an error prefix,
\* else Error(Error) if it holds "failed", "cannot" or "unable to", else
\* Warning if it has a warning prefix, else none.
C40_ErrorTiers ==
    (component = "parser") =>
        \A i \in 1..Len(eval.outs) :
            LET ws == eval.line.words
                evs == eval.outs[i]
                found == ErrorsAndWarnings(evs)
                Is(type, severity) ==
                    /\ Cardinality(found) = 1
                    /\ \A j \in found :
                          /\ evs[j].type = type
                          /\ type = "Error" => evs[j].severity = severity
            IN IF FirstAfter(ws, {"Fatal:"}) # 0 THEN Is("Error", "Fatal")
               ELSE IF FirstAfter(ws, {"Error:"}) # 0 THEN Is("Error", "Error")
               ELSE IF \E n \in 1..Len(ws) : ws[n] = "failed" THEN Is("Error", "Error")
               ELSE IF FirstAfter(ws, {"Warning:"}) # 0 THEN Is("Warning", "none")
               ELSE found = {}

====
